---------------------------- MODULE Spec2Model ----------------------------
(***************************************************************************)
(* Model of the geometry service of PIL.IA: the BOQ matcher                *)
(* (core/text_associator.py, core/spatial_index.py,                        *)
(* core/semantic_matcher.py), the confidence scorer (qa/) and the gap      *)
(* closing of cleanup and region extraction.                               *)
(*                                                                         *)
(* Numbers.  Python floats are modelled as scaled integers:                *)
(*   coordinates and distances   decimetres (0.1 m), distances squared     *)
(*   text / spatial scores       1/10000            (1.0 = 10000)          *)
(*   combined score, confidence  1/100000           (1.0 = 100000)         *)
(*   areas, perimeters           1/10000 m2 or m    (1.0 = 10000)          *)
(*   heights, rounded quantities 1/100              (2.4 = 240)            *)
(***************************************************************************)
EXTENDS Integers, Sequences, FiniteSets, TLC

VARIABLES
    regions,        \* associate_text_to_regions: regions argument
    labels,         \* labels argument
    excel_items,    \* excel_items argument
    segments,       \* segments argument (<<>> models None / empty)
    text_match_threshold,
    shapely,        \* geometry library API the build runs on: "v1" or "v2"
    item_index,     \* position of the for-loop over excel_items
    matches,        \* the list being built
    locals,         \* function locals that survive loop iterations
    pc,             \* "run", "done" (returned matches) or "raised"
    exc,            \* the exception that left the function, "none" otherwise
    run,            \* 1: first call, 2: repeated call with a higher threshold
    prev,           \* outcome of the first call, kept for comparison
    \* qa/confidence_scorer.py, compute_confidence(match, sanity_result, factors)
    cmatch,         \* the match argument
    sanity_result,  \* the sanity_result argument
    given,          \* the values the caller built the ConfidenceFactors with
    factors,        \* the ConfidenceFactors object (compute_confidence writes to it)
    score,          \* the value the last call returned
    before,         \* the value of the call before, and what the caller changed since
    cstage,         \* "idle", "call" (a call is due) or "returned"
    \* api/routes.py: cleanup_geometry followed by extract_regions
    cad_segments,       \* the segments parsed from the drawing
    cleanup_max_gap,    \* the max_gap cleanup_geometry runs with
    cleaned_segments,   \* what cleanup_geometry returned
    extracted_regions,  \* what extract_regions returned
    gstage,             \* "idle", "parsed", "cleaned", "extracted" or "raised"
    \* core/geometry_cleanup.py: snap_vertices and cleanup_geometry on their own
    raw_segments,       \* the segments argument
    passes,             \* merge_collinear_enabled, close_gaps and max_gap
    snapped,            \* snap_vertices(raw_segments)
    resnapped,          \* snap_vertices(snapped)
    cleaned,            \* what cleanup_geometry(raw_segments, ...) returned
    clstage,            \* "idle", "input", "snapped", "resnapped", "cleaned" or "raised"
    \* core/dxf_parser.py: get_unit_factor, reached through parse_dxf_file
    unit_call,          \* the entry point, the caller's hint and the header of the drawing
    unit_result,        \* (factor, unit_name, confidence), None before the call
    \* core/dxf_parser.py: explode_block
    explode_call,       \* the inserts, outermost first; the innermost block holds a line
    explode_result,     \* the segments explode_block returned, None before the call
    \* core/processing_task.py: process_dxf_task
    dxf_entities,       \* the entities of the modelspace, in file order
    parsed_segments,    \* result.segments of parse_dxf_file, None before it ran
    filtered_segments,  \* the segments after the whitelist and the hard limit
    api_segments,       \* the segments of the response
    buffer_polygons,    \* what buffering a layer's lines gives, per resolution
    api_regions,        \* the regions of the response
    tstage,             \* "idle", "input", "parsed", "filtered", "done"
    \* core/layer_filter.py: filter_segments
    filter_call,        \* [segments, force_full_scan]
    filter_result,      \* [done, kept]: the list filter_segments returned
    \* core/semantic_matcher.py: SemanticMatcher.match
    match_call,         \* [target, candidates, threshold]
    match_result,       \* [done, results]: the list match returned
    \* core/region_extractor.py: force_close_polygons, and
    \* core/geometry_cleanup.py: close_small_gaps, on the same segments
    close_segments,     \* the segments handed to both
    forced,             \* [done, segments]: what force_close_polygons returned
    gap_closed,         \* [done, exc, segments]: what close_small_gaps returned
    block_table,      \* doc.blocks of the explode_block walk
    walk_max_depth,   \* max_depth of the top-level explode_block call
    call_stack,       \* the explode_block calls in progress, innermost last
    walk_segments,    \* nesting depth of every segment collected so far
    wstage,           \* "input", "running", "returned"
    worker_file,      \* the file process_dxf_task is given
    worker_buffer,    \* what the buffering of its segments produces
    worker_runs,      \* the outcomes of the runs of process_dxf_task on it
    uploads,          \* the file each /parse-dxf request uploads
    tmp_dir,          \* the temporary directory: path -> file
    handlers,         \* each request's handler: its position, tmp_path and response
    responses,        \* the response each request was answered with
    classify_layer,   \* the layer name of the region being classified
    layer_details,    \* details[category]['layer'] of classify_region, in 1/100
    extract_request,  \* the /extract request: dxf_file, pdf_files, excel_data, use_vision_ai
    extract_tmp,      \* the temporary files that exist: path and suffix
    extract_locals,   \* tmp_path, the number of segments collected, the PDF loop's index
    vision_calls,     \* the dxf_path arguments detect_labels was called with
    epc,              \* position of the handler
    extract_status    \* HTTP status of the answer, 0 before

assoc_vars == <<regions, labels, excel_items, segments, text_match_threshold, shapely,
                item_index, matches, locals, pc, exc, run, prev>>

conf_vars == <<cmatch, sanity_result, given, factors, score, before, cstage>>

gap_vars == <<cad_segments, cleanup_max_gap, cleaned_segments, extracted_regions, gstage>>

clean_vars == <<raw_segments, passes, snapped, resnapped, cleaned, clstage>>

\* the variables of the specifications further down
unit_vars == <<unit_call, unit_result>>

explode_vars == <<explode_call, explode_result>>

task_vars == <<dxf_entities, parsed_segments, filtered_segments, api_segments,
               buffer_polygons, api_regions, tstage>>

filter_vars == <<filter_call, filter_result>>

match_vars == <<match_call, match_result>>

close_vars == <<close_segments, forced, gap_closed>>

walk_vars == <<block_table, walk_max_depth, call_stack, walk_segments, wstage>>

worker_vars == <<worker_file, worker_buffer, worker_runs>>

serve_vars == <<uploads, tmp_dir, handlers, responses>>

classify_vars == <<classify_layer, layer_details>>

extract_vars == <<extract_request, extract_tmp, extract_locals, vision_calls, epc, extract_status>>

aux_vars == <<clean_vars, unit_vars, explode_vars, task_vars, filter_vars, match_vars, close_vars, walk_vars, worker_vars, serve_vars, classify_vars, extract_vars>>

vars == <<assoc_vars, conf_vars, gap_vars, aux_vars>>

None == "None"

----------------------------------------------------------------------------
(* Bounds of the model *)

MaxLabels == 2
MaxItems == 2
MaxWarnings == 11
MaxChanges == 2

----------------------------------------------------------------------------
(* Helpers *)

\* Body(value): a local name for a value that is computed once
With(value, Body(_)) == Body(value)

Max(a, b) == IF a >= b THEN a ELSE b
Min(a, b) == IF a <= b THEN a ELSE b

\* Python round(num/den * 100) / 100 as an integer number of hundredths:
\* round-half-to-even of 100*num/den (num >= 0, den > 0).
Round2(num, den) ==
    LET n == IF den % 100 = 0 THEN num ELSE 100 * num
        d == IF den % 100 = 0 THEN den \div 100 ELSE den
        q == n \div d
        r2 == 2 * (n % d)
    IN  IF r2 < d THEN q
        ELSE IF r2 > d THEN q + 1
        ELSE IF q % 2 = 0 THEN q ELSE q + 1

----------------------------------------------------------------------------
(* core/semantic_matcher.py *)

SYNONYMS == [
    muro |-> <<"tabique", "murete", "wall", "pantalla", "hormigon">>,
    losa |-> <<"radier", "sobrelosa", "slab", "floor", "piso", "pavimento">>,
    cielo |-> <<"ceiling", "falso", "volcanita", "yeso">>,
    puerta |-> <<"door", "acceso", "porton">>,
    ventana |-> <<"window", "vidrio", "cristal">>,
    impermeabilizacion |-> <<"membrana", "waterproof", "aislacion">>,
    estuco |-> <<"revestimiento", "mortero", "plaster">>,
    ceramica |-> <<"porcelanato", "baldoza", "tile">>]

\* dict iteration order of SYNONYMS
SynonymKeys == <<"muro", "losa", "cielo", "puerta", "ventana",
                 "impermeabilizacion", "estuco", "ceramica">>

Range(s) == {s[k] : k \in DOMAIN s}

\* The strings of the model: BOQ descriptions and label texts.  For each one
\* the table gives what the code computes from it:
\*   norm   SemanticMatcher.normalize(s): lower-case, non-word characters
\*          replaced by a blank, stripped
\*   subs   the thesaurus words w with `w in norm` (Python substring test)
\*   h      the height parsed by re.search(r'H\s*=\s*(\d+[.,]?\d*)') with
\*          ',' read as '.', in hundredths; -1 when the regex does not match
\*   len    Python len(s)
Descriptions == {"Impermeabilizacion", "losa", "ab"}

Texts == {"IMPERMEABILIZACION", "Membrana H=2.5", "impermeabilizacin",
          "permeable", "Imper.", "LOSA", "radier H=3,0", ""}

TextInfo(s) ==
    CASE s = "Impermeabilizacion" -> [norm |-> "impermeabilizacion", subs |-> {"impermeabilizacion"}, len |-> 18, h |-> -1]
      [] s = "IMPERMEABILIZACION" -> [norm |-> "impermeabilizacion", subs |-> {"impermeabilizacion"}, len |-> 18, h |-> -1]
      [] s = "Membrana H=2.5"     -> [norm |-> "membrana h 2 5", subs |-> {"membrana"}, len |-> 14, h |-> 250]
      [] s = "impermeabilizacin"  -> [norm |-> "impermeabilizacin", subs |-> {}, len |-> 17, h |-> -1]
      [] s = "permeable"          -> [norm |-> "permeable", subs |-> {}, len |-> 9, h |-> -1]
      [] s = "Imper."             -> [norm |-> "imper", subs |-> {}, len |-> 6, h |-> -1]
      [] s = "losa"               -> [norm |-> "losa", subs |-> {"losa"}, len |-> 4, h |-> -1]
      [] s = "LOSA"               -> [norm |-> "losa", subs |-> {"losa"}, len |-> 4, h |-> -1]
      [] s = "radier H=3,0"       -> [norm |-> "radier h 3 0", subs |-> {"radier"}, len |-> 12, h |-> 300]
      [] s = "ab"                 -> [norm |-> "ab", subs |-> {}, len |-> 2, h |-> -1]
      [] s = ""                   -> [norm |-> "", subs |-> {}, len |-> 0, h |-> -1]

normalize(text) == TextInfo(text).norm

\* difflib.SequenceMatcher(None, a, b).ratio() on the normalized strings of
\* the model, in 1/10000 (values computed with difflib).
SequenceRatio(a, b) ==
    CASE a = "impermeabilizacion" ->
           (CASE b = "membrana h 2 5" -> 2500 [] b = "impermeabilizacin" -> 9714
              [] b = "permeable" -> 5926 [] b = "imper" -> 4348
              [] b = "losa" -> 909 [] b = "radier h 3 0" -> 2000
              [] b = "impermeabilizacion" -> 10000 [] OTHER -> 0)
      [] a = "losa" ->
           (CASE b = "membrana h 2 5" -> 1111 [] b = "impermeabilizacin" -> 1905
              [] b = "permeable" -> 1538 [] b = "imper" -> 0
              [] b = "impermeabilizacion" -> 1818 [] b = "radier h 3 0" -> 1250
              [] b = "losa" -> 10000 [] OTHER -> 0)
      [] OTHER -> 0

get_synonyms(term) ==
    LET hit(k) == LET key == SynonymKeys[k]
                  IN  term = key \/ term \in Range(SYNONYMS[key])
        hits == {k \in DOMAIN SynonymKeys : hit(k)}
    IN  IF hits = {} THEN <<>>
        ELSE LET k == CHOOSE k \in hits : \A j \in hits : k <= j
             IN  <<SynonymKeys[k]>> \o SYNONYMS[SynonymKeys[k]]

fuzzy_score(t1, t2) == SequenceRatio(t1, t2)

\* list.sort(key=score, reverse=True): stable, descending
RECURSIVE InsertByScore(_, _)
InsertByScore(sorted, r) ==
    IF sorted = <<>> THEN <<r>>
    ELSE IF Head(sorted).score >= r.score
         THEN <<Head(sorted)>> \o InsertByScore(Tail(sorted), r)
         ELSE <<r>> \o sorted

RECURSIVE SortByScore(_)
SortByScore(rs) ==
    IF rs = <<>> THEN <<>>
    ELSE InsertByScore(SortByScore(SubSeq(rs, 1, Len(rs) - 1)), rs[Len(rs)])

\* One candidate of SemanticMatcher.match: <<>> when it is not returned.
MatchCandidate(target_norm, target_synonyms, cand, threshold) ==
    LET cand_norm == normalize(cand)
    IN  IF target_norm = cand_norm
        THEN <<[text |-> cand, score |-> 10000, strategy |-> "exact"]>>
        ELSE IF \E k \in DOMAIN target_synonyms :
                    target_synonyms[k] \in TextInfo(cand).subs
        THEN <<[text |-> cand, score |-> 9500, strategy |-> "synonym"]>>
        ELSE IF fuzzy_score(target_norm, cand_norm) >= threshold
        THEN <<[text |-> cand, score |-> fuzzy_score(target_norm, cand_norm),
                strategy |-> "fuzzy"]>>
        ELSE <<>>

RECURSIVE MatchScan(_, _, _, _)
MatchScan(target_norm, target_synonyms, candidates, threshold) ==
    IF candidates = <<>> THEN <<>>
    ELSE MatchCandidate(target_norm, target_synonyms, Head(candidates), threshold)
         \o MatchScan(target_norm, target_synonyms, Tail(candidates), threshold)

match(target, candidates, threshold) ==
    LET target_norm == normalize(target)
        target_synonyms == get_synonyms(target_norm)
    IN  SortByScore(MatchScan(target_norm, target_synonyms, candidates, threshold))

----------------------------------------------------------------------------
(* Geometry: polygons are axis-parallel rectangles <<x1, y1, x2, y2>>,     *)
(* segments are <<x1, y1, x2, y2>> with x1 = x2 or y1 = y2, in decimetres. *)

Sq(a) == a * a

\* shapely Polygon.contains(Point): the point lies in the interior
Contains(rect, x, y) == rect[1] < x /\ x < rect[3] /\ rect[2] < y /\ y < rect[4]

\* the envelope of the polygon intersects the point (STRtree.query)
EnvelopeHit(rect, x, y) == rect[1] <= x /\ x <= rect[3] /\ rect[2] <= y /\ y <= rect[4]

\* squared distance of a point to a rectangle or an axis-parallel segment
\* (geometry.distance(point); 0 inside and on the boundary)
Dist2(g, x, y) ==
    LET lox == Min(g[1], g[3])
        hix == Max(g[1], g[3])
        loy == Min(g[2], g[4])
        hiy == Max(g[2], g[4])
        dx == Max(0, Max(lox - x, x - hix))
        dy == Max(0, Max(loy - y, y - hiy))
    IN  Sq(dx) + Sq(dy)

\* Polygon.area of a rectangle given in dm, in 1/10000 m2
RectArea(rect) == (rect[3] - rect[1]) * (rect[4] - rect[2]) * 100

----------------------------------------------------------------------------
(* core/spatial_index.py *)

\* SpatialIndex.__init__: every valid polygon is appended to valid_polys
\* twice; metadata is keyed by the position of the second copy.  A geometry
\* is named by the position of its region in `regions`.
RECURSIVE ValidPolys(_, _)
ValidPolys(rs, k) ==
    IF k > Len(rs) THEN <<>>
    ELSE (IF rs[k].valid THEN <<k, k>> ELSE <<>>) \o ValidPolys(rs, k + 1)

SpatialIndex(rs) ==
    LET geoms == ValidPolys(rs, 1)
    IN  [geometries |-> geoms,
         \* metadata[len(valid_polys) - 1] = (layer, handle), 0-based keys
         metadata |-> [idx \in {j \in 0..(Len(geoms) - 1) : j % 2 = 1} |->
                          [layer |-> rs[geoms[idx + 1]].layer,
                           handle |-> rs[geoms[idx + 1]].id]],
         \* geom_map[id(poly)] = (layer, handle)
         geom_map |-> [g \in Range(geoms) |->
                          [layer |-> rs[g].layer, handle |-> rs[g].id]],
         tree |-> IF geoms = <<>> THEN None ELSE "STRtree"]

\* matches.sort(key=area); matches[0]
MinArea(ms) ==
    CHOOSE m \in ms : \A n \in ms : m.area < n.area \/ (m.area = n.area /\ m.idx <= n.idx)

\* A returned zone dict; `some` is FALSE for a returned None.  zone.get(key)
\* of a key the dict does not have is None.
NoZone == [some |-> FALSE, layer |-> None, handle |-> None, area |-> 0]

\* SpatialIndex.find_zone.  Result: [exc, zone]; the dict the code returns
\* has no "handle" key.
find_zone(rs, index, api, x, y) ==
    IF index.tree = None THEN [exc |-> "none", zone |-> NoZone]
    ELSE
    LET n == Len(index.geometries)
        rect(idx) == rs[index.geometries[idx + 1]].rect
        candidate_indices == {idx \in 0..(n - 1) : EnvelopeHit(rect(idx), x, y)}
        inside == {idx \in candidate_indices : Contains(rect(idx), x, y)}
    IN  IF api = "v1"
        THEN \* query returns geometries: self.geometries[idx] is a TypeError
             IF candidate_indices # {} THEN [exc |-> "TypeError", zone |-> NoZone]
             ELSE [exc |-> "none", zone |-> NoZone]
        ELSE IF \E idx \in inside : idx \notin DOMAIN index.metadata
        THEN [exc |-> "KeyError", zone |-> NoZone]
        ELSE IF inside = {} THEN [exc |-> "none", zone |-> NoZone]
        ELSE LET best == MinArea({[idx |-> idx, area |-> RectArea(rect(idx)),
                                   layer |-> index.metadata[idx].layer] : idx \in inside})
             IN  [exc |-> "none",
                  zone |-> [some |-> TRUE, layer |-> best.layer,
                            handle |-> None, area |-> best.area]]

\* SpatialIndex.find_nearest_zone.  STRtree.nearest gives the geometry (v1)
\* or its index (v2); of equidistant entries `t` says which one.
find_nearest_zone(rs, index, api, t, x, y, max_distance) ==
    IF index.tree = None THEN [exc |-> "none", zone |-> NoZone]
    ELSE
    LET n == Len(index.geometries)
        d2(idx) == Dist2(rs[index.geometries[idx + 1]].rect, x, y)
    IN
    With({idx \in 0..(n - 1) : \A j \in 0..(n - 1) : d2(idx) <= d2(j)}, LAMBDA closest :
    With(IF t = 0 THEN CHOOSE idx \in closest : \A j \in closest : idx <= j
         ELSE CHOOSE idx \in closest : \A j \in closest : idx >= j, LAMBDA nearest :
    With(index.geometries[nearest + 1], LAMBDA g :
        IF api = "v2"
        THEN \* `not nearest_geom` is true of index 0; an index has no .distance
             IF nearest = 0 THEN [exc |-> "none", zone |-> NoZone]
             ELSE [exc |-> "AttributeError", zone |-> NoZone]
        ELSE IF d2(nearest) > Sq(max_distance) THEN [exc |-> "none", zone |-> NoZone]
        ELSE IF g \notin DOMAIN index.geom_map THEN [exc |-> "none", zone |-> NoZone]
        ELSE [exc |-> "none",
              zone |-> [some |-> TRUE, layer |-> index.geom_map[g].layer,
                        handle |-> index.geom_map[g].handle,
                        area |-> RectArea(rs[g].rect)]])))

----------------------------------------------------------------------------
(* core/text_associator.py *)

\* An absent region (None); a region is a record with `some` TRUE.
NoRegion == [some |-> FALSE, id |-> None, layer |-> None, rect |-> <<0, 0, 0, 0>>,
             valid |-> FALSE, area |-> 0, perimeter |-> 0]

\* estimate_unclosed_area: the segments within search_radius of the label,
\* at least 3, their bounding box with area in [1, 1000] m2.
estimate_unclosed_area(x, y, segs, search_radius) ==
    LET near == {k \in DOMAIN segs : Dist2(segs[k], x, y) <= Sq(search_radius)}
        xs == UNION {{segs[k][1], segs[k][3]} : k \in near}
        ys == UNION {{segs[k][2], segs[k][4]} : k \in near}
        min_x == CHOOSE v \in xs : \A w \in xs : v <= w
        max_x == CHOOSE v \in xs : \A w \in xs : v >= w
        min_y == CHOOSE v \in ys : \A w \in ys : v <= w
        max_y == CHOOSE v \in ys : \A w \in ys : v >= w
        width == Max(0, max_x - min_x)
        height == Max(0, max_y - min_y)
        area == width * height * 100
    IN  IF Cardinality(near) < 3 THEN NoRegion
        ELSE IF area > 10000000 \/ area < 10000 THEN NoRegion
        ELSE [some |-> TRUE, id |-> "estimated_fallback", layer |-> "Fallback Estimation",
              rect |-> <<min_x, min_y, max_x, max_y>>, valid |-> TRUE,
              area |-> area, perimeter |-> (width + height) * 2 * 1000]

\* find_matching_labels: positions (in `lbls`) of the labels whose text the
\* matcher returned, with the score, in result order; every label once.
RECURSIVE LabelsOfResults(_, _, _)
LabelsOfResults(results, lbls, seen) ==
    IF results = <<>> THEN <<>>
    ELSE LET text == Head(results).text
             new == SelectSeq([k \in DOMAIN lbls |-> k],
                              LAMBDA k : lbls[k].text = text /\ k \notin seen)
         IN  [j \in DOMAIN new |-> [label |-> new[j], score |-> Head(results).score]]
             \o LabelsOfResults(Tail(results), lbls, seen \cup Range(new))

find_matching_labels(item, lbls, threshold) ==
    IF normalize(item.description) = "" THEN <<>>
    ELSE LET withText == SelectSeq(lbls, LAMBDA l : l.text # "")
             candidate_texts == [k \in DOMAIN withText |-> withText[k].text]
             results == match(item.description, candidate_texts, threshold)
         IN  LabelsOfResults(results, lbls, {})

\* region_id_map.get(handle)
RegionById(rs, handle) ==
    IF \E k \in DOMAIN rs : rs[k].id = handle
    THEN LET k == CHOOSE k \in DOMAIN rs : rs[k].id = handle /\
                      \A j \in DOMAIN rs : rs[j].id = handle => j <= k
         IN  rs[k]
    ELSE NoRegion

\* Program constants of associate_text_to_regions
ProximityDistance == 5          \* max_distance=0.5
FallbackRadius == 50            \* search_radius=5.0
SpatialSearchRadius == 20       \* spatial_search_radius: float = 2.0
DefaultHeight == 240            \* default_height: float = 2.4
HeightRange == 20               \* if dist < 2.0

\* The body of `for label, text_score in matching_labels` up to the scoring:
\* the region the label resolves to.  Result: exc, region, strategy,
\* spatial_score, broke (the loop was left by `break`), segment_tree.
ResolveLabel(rs, index, api, t, segs, lbl, segment_tree) ==
    LET fail(e, tree) == [exc |-> e, region |-> NoRegion, strategy |-> "none",
                          spatial_score |-> 0, broke |-> FALSE, segment_tree |-> tree]
        found(region, strategy, spatial_score, broke, tree) ==
            [exc |-> "none", region |-> region, strategy |-> strategy,
             spatial_score |-> spatial_score, broke |-> broke, segment_tree |-> tree]
        \* region_id_map.get(zone.get('handle')) of a returned zone
        region_of(zone) == IF zone.some THEN RegionById(rs, zone.handle) ELSE NoRegion
    IN
    With(find_zone(rs, index, api, lbl.x, lbl.y), LAMBDA zr :
    With(region_of(zr.zone), LAMBDA inside :
    IF zr.exc # "none" THEN fail(zr.exc, segment_tree)
    ELSE IF inside.some THEN found(inside, "inside_zone", 10000, FALSE, segment_tree)
    ELSE
    With(find_nearest_zone(rs, index, api, t, lbl.x, lbl.y, ProximityDistance), LAMBDA nz :
    With(region_of(nz.zone), LAMBDA nearby :
    IF nz.exc # "none" THEN fail(nz.exc, segment_tree)
    ELSE IF nearby.some THEN found(nearby, "proximity", 8000, FALSE, segment_tree)
    ELSE
    \* if 'segment_tree' not in locals(): built once, when first needed
    With(IF segs = <<>> THEN segment_tree
         ELSE IF segment_tree = "unset" THEN "STRtree" ELSE segment_tree, LAMBDA tree :
    With(IF segs # <<>> /\ tree = "STRtree"
         THEN estimate_unclosed_area(lbl.x, lbl.y, segs, FallbackRadius)
         ELSE NoRegion, LAMBDA fallback :
    IF fallback.some THEN found(fallback, "fallback_estimator", 10000, TRUE, tree)
    ELSE
    With(find_nearest_zone(rs, index, api, t, lbl.x, lbl.y, SpatialSearchRadius), LAMBDA nn :
    With(region_of(nn.zone), LAMBDA nearest :
    \* nearest_zone.get("distance", 0): the dict has no "distance" key
    With(0, LAMBDA dist :
    IF nn.exc # "none" THEN fail(nn.exc, tree)
    ELSE IF nearest.some
    THEN found(nearest, "nearest_neighbor",
               Max(5000, 10000 - (dist * 10000) \div SpatialSearchRadius), FALSE, tree)
    ELSE found(NoRegion, "none", 0, FALSE, tree))))))))))

\* combined = text_score * 0.6 + spatial_score * 0.4, plus 0.2 when the
\* region's area is within 20% of expected_qty (0 models None)
CombinedScore(item, region, text_score, spatial_score) ==
    6 * text_score + 4 * spatial_score
    + (IF item.expected_qty > 0
          /\ 8 * item.expected_qty <= 10 * region.area
          /\ 10 * region.area <= 12 * item.expected_qty
       THEN 20000 ELSE 0)

NoBest == [some |-> FALSE, region |-> NoRegion, label |-> 0, strategy |-> "none"]

\* The whole `for label, text_score in matching_labels` loop.
\* st = [best_match, best_score, segment_tree, exc]
RECURSIVE LabelLoop(_, _, _, _, _, _, _, _, _)
LabelLoop(rs, index, api, t, segs, lbls, item, matching_labels, st) ==
    IF matching_labels = <<>> \/ st.exc # "none" THEN st
    ELSE
    With(Head(matching_labels), LAMBDA lm :
    With(ResolveLabel(rs, index, api, t, segs, lbls[lm.label], st.segment_tree), LAMBDA r :
    With(CombinedScore(item, r.region, lm.score, r.spatial_score), LAMBDA combined :
        IF r.exc # "none" THEN [st EXCEPT !.exc = r.exc, !.segment_tree = r.segment_tree]
        ELSE IF r.broke THEN [st EXCEPT !.segment_tree = r.segment_tree]
        ELSE LabelLoop(rs, index, api, t, segs, lbls, item, Tail(matching_labels),
                       IF r.region.some /\ combined > st.best_score
                       THEN [st EXCEPT !.best_match = [some |-> TRUE, region |-> r.region,
                                                        label |-> lm.label,
                                                        strategy |-> r.strategy],
                                       !.best_score = combined,
                                       !.segment_tree = r.segment_tree]
                       ELSE [st EXCEPT !.segment_tree = r.segment_tree]))))

\* item.unit.lower() for the units of the model
LowerUnit(u) == IF u = "M2" THEN "m2" ELSE u

AreaUnits == {"m2", "m²", "metro cuadrado"}
LinearUnits == {"ml", "m", "metro lineal"}
CountUnits == {"un", "u", "unidad", "c/u", "num", "gl"}

horizontal_keywords == {"cielo", "pisos", "pavimento", "losa", "radier", "sobrelosa", "vitrina"}

\* the horizontal keywords k with `k in item.description.lower()`
DescriptionKeywords(description) == IF description = "losa" THEN {"losa"} ELSE {}

\* P2.4: the height of the nearest label "H=<number>" closer than 2 m to the
\* region's polygon; default_height when there is none.  `dist < min_h_dist`
\* is strict: of equally near labels the first one stays.
DetectHeight(region, lbls) ==
    LET ok(k) == lbls[k].text # "" /\ TextInfo(lbls[k].text).h >= 0
                 /\ Dist2(region.rect, lbls[k].x, lbls[k].y) < Sq(HeightRange)
        cands == {k \in DOMAIN lbls : ok(k)}
        d(k) == Dist2(region.rect, lbls[k].x, lbls[k].y)
    IN  IF cands = {} THEN DefaultHeight
        ELSE LET k == CHOOSE k \in cands :
                        \A j \in cands : d(k) < d(j) \/ (d(k) = d(j) /\ k <= j)
             IN  TextInfo(lbls[k].text).h

\* The unit logic without its unit families: qty = region.area whatever the
\* unit.  A faulty variant, against which C3_UnitFamilyRounded is tested.
QuantityAreaOnly(item, region, lbls, dh) ==
    [qty |-> [num |-> region.area, den |-> 10000], detected_height |-> dh]

\* Step 3, "Unit logic": the quantity as a fraction [num, den] and the value
\* of the local detected_height afterwards.
\* dh = [set, val] is the local detected_height before.
Quantity(item, region, lbls, dh) ==
    LET u == LowerUnit(item.unit)
        linear_area == item.unit # "" /\ u \in AreaUnits
                       /\ region.area < 100 /\ region.perimeter > 0
        detected_height == DetectHeight(region, lbls)
        is_horizontal == \E k \in horizontal_keywords :
                            k \in DescriptionKeywords(item.description)
        area_qty == IF linear_area
                    THEN IF is_horizontal
                         THEN [num |-> RectArea(region.rect), den |-> 10000]
                         ELSE [num |-> region.perimeter * detected_height, den |-> 1000000]
                    ELSE [num |-> region.area, den |-> 10000]
        qty == IF item.unit # "" /\ u \in LinearUnits
               THEN [num |-> region.perimeter, den |-> 10000]
               ELSE IF item.unit # "" /\ u \in CountUnits
               THEN [num |-> 1, den |-> 1]
               ELSE area_qty
    IN  [qty |-> qty,
         detected_height |-> IF linear_area THEN [set |-> TRUE, val |-> detected_height]
                             ELSE dh]

\* "Default" in match_reason
Default == -1

\* f"{strategy} | Auto-Height: {... if 'detected_height' in locals() and
\* detected_height != default_height else 'Default'}"
AutoHeight(dh) == IF dh.set /\ dh.val # DefaultHeight THEN dh.val ELSE Default

\* One iteration of `for item in excel_items`.
\* Result: exc, skipped, match, locals.
AssociateItem(rs, lbls, segs, threshold, api, t, item, lc) ==
    LET none == [exc |-> "none", skipped |-> TRUE, match |-> <<>>, locals |-> lc]
        raise(e, l) == [exc |-> e, skipped |-> FALSE, match |-> <<>>, locals |-> l]
    IN
    \* item.get('description'): a dataclass ExcelItem has no .get
    IF item.kind = "ExcelItem" THEN raise("AttributeError", lc)
    ELSE IF item.description = "" \/ TextInfo(item.description).len < 3 THEN none
    \* find_matching_labels reads item.description: a dict has no attributes
    ELSE IF item.kind = "dict" THEN raise("AttributeError", lc)
    ELSE
    With(LabelLoop(rs, SpatialIndex(rs), api, t, segs, lbls, item,
                   find_matching_labels(item, lbls, threshold),
                   [best_match |-> NoBest, best_score |-> 0,
                    segment_tree |-> lc.segment_tree, exc |-> "none"]), LAMBDA st :
    With([lc EXCEPT !.segment_tree = st.segment_tree], LAMBDA lc1 :
    IF st.exc # "none" THEN raise(st.exc, lc1)
    ELSE IF st.best_match.some
    THEN With(Quantity(item, st.best_match.region, lbls, lc.detected_height), LAMBDA q :
              [exc |-> "none", skipped |-> FALSE,
               match |-> <<[excel_item |-> item,
                            region |-> st.best_match.region,
                            label |-> st.best_match.label,
                            qty_calculated |-> Round2(q.qty.num, q.qty.den),
                            confidence |-> st.best_score,
                            strategy |-> st.best_match.strategy,
                            auto_height |-> AutoHeight(q.detected_height),
                            match_reason |-> "strategy | Auto-Height"]>>,
               locals |-> [lc1 EXCEPT !.detected_height = q.detected_height]])
    ELSE [exc |-> "none", skipped |-> FALSE,
          match |-> <<[excel_item |-> item, region |-> NoRegion, label |-> 0,
                       qty_calculated |-> 0, confidence |-> 0,
                       strategy |-> "none", auto_height |-> Default,
                       match_reason |-> "No spatial match found"]>>,
          locals |-> lc1]))

----------------------------------------------------------------------------
(* qa/sanity_checks.py and qa/confidence_scorer.py.  Factors and scores    *)
(* are in 1/100000, like Match.confidence.                                 *)

\* An absent sanity_result / a SanityResult, its issues counted by severity
NoSanity == [some |-> FALSE, passed |-> TRUE, warnings |-> 0, errors |-> 0]

SanityResult(warnings, errors) ==
    [some |-> TRUE, passed |-> errors = 0, warnings |-> warnings, errors |-> errors]

\* run_sanity_checks(m) without a context: a Match has neither `unit`
\* nor `expected_qty`, so the ranges are those of "m2" and check 3 is silent.
run_sanity_checks(m) ==
    LET quantity == m.qty_calculated
        check1 == IF quantity < 10 \/ quantity > 200000 THEN 1 ELSE 0     \* ERROR
        check2 == IF quantity < 100 \/ quantity > 50000 THEN 1 ELSE 0     \* WARNING
    IN  SanityResult(check2, check1)

\* compute_geometry_quality_factor: 0.5 + 0.3 * area / hull area + the range
\* bonus (Polygon.area of a rectangle is a multiple of 0.01)
compute_geometry_quality_factor(region) ==
    IF ~region.some THEN 0
    ELSE LET hull_area == RectArea(region.rect)
             convexity == IF hull_area > 0 THEN (300 * region.area) \div (hull_area \div 100) ELSE 0
             in_range == IF 10000 <= region.area /\ region.area <= 2000000 THEN 20000
                         ELSE IF 5000 <= region.area /\ region.area <= 5000000 THEN 10000
                         ELSE 0
         IN  Min(100000, 50000 + convexity + in_range)

\* compute_expected_match_factor; calculated in 1/100, expected in 1/10000
\* (0 models None)
compute_expected_match_factor(calculated, expected) ==
    IF expected <= 0 THEN 50000
    ELSE LET c == 1000 * calculated
         IN  IF 9 * expected <= c /\ c <= 11 * expected THEN 100000
             ELSE IF 8 * expected <= c /\ c <= 12 * expected THEN 90000
             ELSE IF 7 * expected <= c /\ c <= 14 * expected THEN 70000
             ELSE IF 5 * expected <= c /\ c <= 20 * expected THEN 40000
             ELSE 10000

\* ConfidenceFactors(...)
ConfidenceFactors(text_match, spatial_match, geometry_quality, expected_match) ==
    [text_match |-> text_match, spatial_match |-> spatial_match,
     geometry_quality |-> geometry_quality, expected_match |-> expected_match,
     source_reliability |-> 50000]

\* "Extract values from match if not provided": the factors object after
\* the three substitutions.
ExtractedFactors(m, f) ==
    LET f1 == IF f.text_match = 0 THEN [f EXCEPT !.text_match = m.confidence] ELSE f
        f2 == IF f1.geometry_quality = 0
              THEN [f1 EXCEPT !.geometry_quality = compute_geometry_quality_factor(m.region)]
              ELSE f1
    IN  IF f2.expected_match = 0
        THEN [f2 EXCEPT !.expected_match =
                 compute_expected_match_factor(m.qty_calculated,
                                               m.excel_item.expected_qty)]
        ELSE f2

\* round(x, 3) of x = num / 10^8, as a number of thousandths (half to even)
Round3(num) ==
    LET q == num \div 100000
        r2 == 2 * (num % 100000)
    IN  IF r2 < 100000 THEN q
        ELSE IF r2 > 100000 THEN q + 1
        ELSE IF q % 2 = 0 THEN q ELSE q + 1

\* compute_confidence: the returned value in 1/1000
compute_confidence(m, sanity, f) ==
    With(ExtractedFactors(m, f), LAMBDA x :
    LET \* weighted combination, in 1/10^7
        weighted == 20 * x.text_match + 25 * x.spatial_match + 20 * x.geometry_quality
                    + 25 * x.expected_match + 10 * x.source_reliability
        \* sanity penalty, in tenths
        penalty == IF sanity.some /\ ~sanity.passed THEN 5
                   ELSE IF sanity.some /\ sanity.warnings + sanity.errors > 0
                           /\ sanity.warnings > 0
                   THEN 10 - sanity.warnings
                   ELSE 10
    IN  Round3(Max(0, Min(100000000, weighted * penalty))))

\* the values of the factors a caller sets
FactorLevels == {0, 10000, 50000, 100000}

\* the state of the scorer while the matcher runs
CleanIdle ==
    /\ raw_segments = <<>>
    /\ passes = <<>>
    /\ snapped = <<>>
    /\ resnapped = <<>>
    /\ cleaned = <<>>
    /\ clstage = "idle"

UnitIdle == unit_call = <<>> /\ unit_result = None

ExplodeIdle == explode_call = <<>> /\ explode_result = None

TaskIdle ==
    /\ dxf_entities = <<>>
    /\ parsed_segments = None
    /\ filtered_segments = None
    /\ api_segments = None
    /\ buffer_polygons = <<>>
    /\ api_regions = <<>>
    /\ tstage = "idle"

\* filter_segments has not returned
NotFiltered == [done |-> FALSE, kept |-> <<>>]

FilterIdle == filter_call = <<>> /\ filter_result = NotFiltered

\* match has not returned
NotMatched == [done |-> FALSE, results |-> <<>>]

MatchIdle == match_call = <<>> /\ match_result = NotMatched

\* neither function has returned
NotClosed == [done |-> FALSE, exc |-> "none", segments |-> <<>>]

CloseIdle == close_segments = <<>> /\ forced = NotClosed /\ gap_closed = NotClosed

WalkIdle ==
    /\ block_table = None
    /\ walk_max_depth = None
    /\ call_stack = <<>>
    /\ walk_segments = <<>>
    /\ wstage = "idle"

WorkerIdle ==
    /\ worker_file = None
    /\ worker_buffer = None
    /\ worker_runs = <<>>

ServeIdle ==
    /\ uploads = <<>>
    /\ tmp_dir = <<>>
    /\ handlers = <<>>
    /\ responses = <<>>

ClassifyIdle ==
    /\ classify_layer = <<>>
    /\ layer_details = <<>>

ExtractIdle ==
    /\ extract_request = None
    /\ extract_tmp = {}
    /\ extract_locals = None
    /\ vision_calls = <<>>
    /\ epc = "idle"
    /\ extract_status = 0

AuxIdle == CleanIdle /\ UnitIdle /\ ExplodeIdle /\ TaskIdle /\ FilterIdle /\ MatchIdle /\ CloseIdle /\ WalkIdle /\ WorkerIdle /\ ServeIdle /\ ClassifyIdle /\ ExtractIdle

GapIdle ==
    /\ cad_segments = <<>>
    /\ cleanup_max_gap = 0
    /\ cleaned_segments = <<>>
    /\ extracted_regions = <<>>
    /\ gstage = "idle"

ConfIdle ==
    /\ cmatch = <<>>
    /\ sanity_result = NoSanity
    /\ given = <<>>
    /\ factors = <<>>
    /\ score = -1
    /\ before = [score |-> -1, change |-> "none", changes |-> 0]
    /\ cstage = "idle"

----------------------------------------------------------------------------
(* core/geometry_cleanup.py.  Lengths are in units of 2.5 mm (1 m = 400),  *)
(* points are <<x, y>> with integer coordinates, so that the roundings of  *)
(* the code (4, 5 and 6 decimals) leave them unchanged and a distance is   *)
(* either 0 or above 0.001 m.                                              *)

Segment(start, end, layer, entity_type) ==
    [start |-> start, end |-> end, layer |-> layer, entity_type |-> entity_type]

\* squared distance of two points
PointDist2(p, q) == Sq(p[1] - q[1]) + Sq(p[2] - q[2])

\* all_points: seg.start, seg.end of every segment, in order
RECURSIVE AllPoints(_)
AllPoints(segs) ==
    IF segs = <<>> THEN <<>>
    ELSE <<Head(segs).start, Head(segs).end>> \o AllPoints(Tail(segs))

\* "Find clusters of nearby points": the loop over all_points from i on.
\* cl = [of: point index -> cluster id (0: none yet), centroids: the list]
\* A cluster takes every point within tolerance of point i, also those
\* that an earlier cluster had taken; its centroid is their mean (exact in
\* the model: the sums are multiples of the counts).
RECURSIVE SnapClusters(_, _, _, _)
SnapClusters(pts, tolerance, i, cl) ==
    IF i > Len(pts) THEN cl
    ELSE IF cl.of[i] # 0 THEN SnapClusters(pts, tolerance, i + 1, cl)
    ELSE
    With({j \in DOMAIN pts : PointDist2(pts[i], pts[j]) <= Sq(tolerance)}, LAMBDA nearby :
    LET RECURSIVE Sum(_, _)
        Sum(js, c) == IF js = {} THEN 0
                      ELSE LET j == CHOOSE j \in js : TRUE
                           IN  pts[j][c] + Sum(js \ {j}, c)
        centroid == <<Sum(nearby, 1) \div Cardinality(nearby),
                      Sum(nearby, 2) \div Cardinality(nearby)>>
        cluster_id == Len(cl.centroids) + 1
    IN  SnapClusters(pts, tolerance, i + 1,
                     [of |-> [j \in DOMAIN pts |-> IF j \in nearby THEN cluster_id
                                                   ELSE cl.of[j]],
                      centroids |-> Append(cl.centroids, centroid)]))

\* "Create new segments with snapped vertices"
RECURSIVE SnappedSegments(_, _, _)
SnappedSegments(segs, cl, k) ==
    IF k > Len(segs) THEN <<>>
    ELSE LET start_cluster == cl.of[2 * k - 1]
             end_cluster == cl.of[2 * k]
         IN  (IF start_cluster # end_cluster
              THEN <<Segment(cl.centroids[start_cluster], cl.centroids[end_cluster],
                             segs[k].layer, segs[k].entity_type)>>
              ELSE <<>>)
             \o SnappedSegments(segs, cl, k + 1)

snap_vertices(segs, tolerance) ==
    IF segs = <<>> THEN segs
    ELSE With(AllPoints(segs), LAMBDA pts :
         SnappedSegments(segs,
                         SnapClusters(pts, tolerance, 1,
                                      [of |-> [j \in DOMAIN pts |-> 0], centroids |-> <<>>]),
                         1))

Abs(a) == IF a < 0 THEN -a ELSE a

\* angle_diff <= radians(0.5) of the directions of two segments, angles
\* taken modulo pi: |cross| <= tan(0.5 deg) * |dot|, tan(0.5 deg) = 7/802
AngleWithinTolerance(a, b) ==
    LET ax == a.end[1] - a.start[1]
        ay == a.end[2] - a.start[2]
        bx == b.end[1] - b.start[1]
        by == b.end[2] - b.start[2]
    IN  802 * Abs(ax * by - ay * bx) <= 7 * Abs(ax * bx + ay * by)

\* s1 == s2 or s1 == e2 or e1 == s2 or e1 == e2
Connected(a, b) ==
    a.start = b.start \/ a.start = b.end \/ a.end = b.start \/ a.end = b.end

\* the chain the queue of merge_collinear collects from segment i: the
\* unused segments reached through connected segments of the same direction
RECURSIVE Chain(_, _, _)
Chain(segs, used, chain) ==
    With(chain \cup {c \in DOMAIN segs \ used :
                        \E k \in chain : /\ AngleWithinTolerance(segs[k], segs[c])
                                         /\ Connected(segs[k], segs[c])}, LAMBDA more :
         IF more = chain THEN chain ELSE Chain(segs, used, more))

\* "Merge chain": the two chain points farthest apart along chain[0]
MergedSegment(segs, i, chain) ==
    LET dx == segs[i].end[1] - segs[i].start[1]
        dy == segs[i].end[2] - segs[i].start[2]
        proj(pt) == pt[1] * dx + pt[2] * dy
        pts == UNION {{segs[k].start, segs[k].end} : k \in chain}
    IN  Segment(CHOOSE pt \in pts : \A o \in pts : proj(pt) <= proj(o),
                CHOOSE pt \in pts : \A o \in pts : proj(pt) >= proj(o),
                segs[i].layer, "MERGED")

RECURSIVE MergeFrom(_, _, _)
MergeFrom(segs, i, used) ==
    IF i > Len(segs) THEN <<>>
    ELSE IF i \in used THEN MergeFrom(segs, i + 1, used)
    ELSE With(Chain(segs, used \cup {i}, {i}), LAMBDA chain :
              <<IF chain = {i} THEN segs[i] ELSE MergedSegment(segs, i, chain)>>
              \o MergeFrom(segs, i + 1, used \cup chain))

\* merge_collinear.  Result: [exc, segments].  tree.query gives indices on
\* shapely 2; on shapely 1 it gives geometries, and segments[cand_idx]
\* (or the set lookup before it) is a TypeError.
merge_collinear(segs, api) ==
    IF segs = <<>> THEN [exc |-> "none", segments |-> segs]
    ELSE IF api = "v1" THEN [exc |-> "TypeError", segments |-> segs]
    ELSE [exc |-> "none", segments |-> MergeFrom(segs, 1, {})]

\* the dangling endpoints, in the order their places first occur among the
\* endpoints: [pt, seg]
Dangling(segs) ==
    LET pts == AllPoints(segs)
        single == SelectSeq([j \in DOMAIN pts |-> j],
                            LAMBDA j : \A o \in DOMAIN pts : pts[o] = pts[j] => o = j)
    IN  [d \in DOMAIN single |-> [pt |-> pts[single[d]], seg |-> (single[d] + 1) \div 2]]

\* the loop over the dangling endpoints from i on; `first` says which of
\* several candidates the tree query lists first ("low" or "high" index)
RECURSIVE GapSegments(_, _, _, _, _)
GapSegments(dangling, max_gap, first, i, used_dangles) ==
    IF i > Len(dangling) THEN <<>>
    ELSE IF i \in used_dangles
    THEN GapSegments(dangling, max_gap, first, i + 1, used_dangles)
    ELSE
    With({j \in DOMAIN dangling :
             /\ j > i
             /\ j \notin used_dangles
             /\ dangling[j].seg # dangling[i].seg
             /\ PointDist2(dangling[i].pt, dangling[j].pt) <= Sq(max_gap)
             /\ PointDist2(dangling[i].pt, dangling[j].pt) > 0}, LAMBDA cands :
    IF cands = {} THEN GapSegments(dangling, max_gap, first, i + 1, used_dangles)
    ELSE With(IF first = "low" THEN CHOOSE j \in cands : \A o \in cands : j <= o
              ELSE CHOOSE j \in cands : \A o \in cands : j >= o, LAMBDA j :
              <<Segment(dangling[i].pt, dangling[j].pt, "GAP_CLOSE", "GAP_CLOSE")>>
              \o GapSegments(dangling, max_gap, first, i + 1, used_dangles \cup {i, j})))

\* close_small_gaps.  On shapely 1 the query gives geometries and `j <= i`
\* is a TypeError.
close_small_gaps(segs, max_gap, api, first) ==
    IF segs = <<>> THEN [exc |-> "none", segments |-> segs]
    ELSE With(Dangling(segs), LAMBDA dangling :
         IF dangling = <<>> THEN [exc |-> "none", segments |-> segs]
         ELSE IF api = "v1" THEN [exc |-> "TypeError", segments |-> segs]
         ELSE [exc |-> "none",
               segments |-> segs \o GapSegments(dangling, max_gap, first, 1, {})])

\* A faulty variant: the segments come back as they went in.
cleanup_nothing(segs, snap_tolerance, merge_collinear_enabled, close_gaps, max_gap, api, first) ==
    [exc |-> "none", segments |-> segs]

\* cleanup_geometry: snap, merge collinear (if enabled), close gaps (if
\* enabled), then the length filter
cleanup_geometry(segs, snap_tolerance, merge_collinear_enabled, close_gaps, max_gap, api, first) ==
    With(IF merge_collinear_enabled
         THEN merge_collinear(snap_vertices(segs, snap_tolerance), api)
         ELSE [exc |-> "none", segments |-> snap_vertices(segs, snap_tolerance)], LAMBDA merged :
    IF merged.exc # "none" THEN merged
    ELSE With(IF close_gaps
              THEN close_small_gaps(merged.segments, max_gap, api, first)
              ELSE merged, LAMBDA closed :
         IF closed.exc # "none" THEN closed
         ELSE [exc |-> "none",
               \* seg.length > 0.001
               segments |-> SelectSeq(closed.segments,
                                      LAMBDA g : PointDist2(g.start, g.end) > 0)]))

----------------------------------------------------------------------------
(* core/region_extractor.py, same units as the cleanup *)

\* FORCE_CLOSE_LAYERS: 0.20, 0.20, 0.10, 0.20 m; 0 for a layer that holds
\* none of the keys.  The layers of the model are in lower case and hold
\* a key only as their whole name.
FORCE_CLOSE_LAYERS(layer) ==
    CASE layer = "fa_0.20" -> 80
      [] layer = "a-arq-cielo falso" -> 80
      [] layer = "a-arq-tabiques" -> 40
      [] layer = "mb-elev 2" -> 80
      [] OTHER -> 0

SetMax(S) == CHOOSE a \in S : \A b \in S : a >= b

\* valid_neighbors[:2] of endpoint p1.  layer_map[p] is the tolerance of
\* point p, existing_pairs the pairs a segment joins already.
TwoNearest(p1, endpoints, layer_map, existing_pairs) ==
    LET valid == {p2 \in endpoints \ {p1} :
                     /\ Abs(p1[1] - p2[1]) <= layer_map[p1]
                     /\ Abs(p1[2] - p2[2]) <= layer_map[p1]
                     /\ PointDist2(p1, p2) > 0
                     /\ PointDist2(p1, p2) <= Sq(Max(layer_map[p1], layer_map[p2]))
                     /\ {p1, p2} \notin existing_pairs}
        nearest(S) == CHOOSE p \in S : \A o \in S : PointDist2(p1, p) <= PointDist2(p1, o)
    IN  IF valid = {} THEN {}
        ELSE With(nearest(valid), LAMBDA n1 :
                  IF valid = {n1} THEN {n1} ELSE {n1, nearest(valid \ {n1})})

RECURSIVE Bridges(_)
Bridges(pairs) ==
    IF pairs = {} THEN <<>>
    ELSE LET pair == CHOOSE pr \in pairs : TRUE
             p1 == CHOOSE p \in pair : TRUE
             p2 == CHOOSE p \in pair : p # p1
         IN  <<Segment(p1, p2, "AUTO_CLOSE", "BRIDGE")>> \o Bridges(pairs \ {pair})

force_close_polygons(segs, tolerance) ==
    IF segs = <<>> THEN <<>>
    ELSE
    LET endpoints == UNION {{segs[k].start, segs[k].end} : k \in DOMAIN segs}
        existing_pairs == {{segs[k].start, segs[k].end} : k \in DOMAIN segs}
        layer_map == [p \in endpoints |->
                         SetMax({Max(tolerance, FORCE_CLOSE_LAYERS(segs[k].layer)) :
                                    k \in {i \in DOMAIN segs : p \in {segs[i].start, segs[i].end}}})]
        processed_pairs == UNION {{{p1, p2} : p2 \in TwoNearest(p1, endpoints, layer_map, existing_pairs)} :
                                     p1 \in endpoints}
    IN  segs \o Bridges(processed_pairs)

\* segments_to_linestrings
segments_to_linestrings(segs) == SelectSeq(segs, LAMBDA g : g.start # g.end)

\* the edges left when the dangling ones are taken away, again and again
RECURSIVE Loops(_)
Loops(edges) ==
    With({e \in edges : \E p \in e : Cardinality({f \in edges : p \in f}) = 1}, LAMBDA dangles :
         IF dangles = {} THEN edges ELSE Loops(edges \ dangles))

\* the vertices around the loop that path begins
RECURSIVE Ring(_, _)
Ring(edges, path) ==
    LET cur == path[Len(path)]
        back == IF Len(path) > 1 THEN {path[Len(path) - 1]} ELSE {}
        next == CHOOSE q \in (UNION edges) \ ({cur} \cup back) : {cur, q} \in edges
    IN  IF next = path[1] THEN path ELSE Ring(edges, Append(path, next))

\* twice the area of the polygon with these vertices
RECURSIVE Shoelace(_, _)
Shoelace(ring, i) ==
    IF i > Len(ring) THEN 0
    ELSE LET a == ring[i]
             b == ring[(i % Len(ring)) + 1]
         IN  a[1] * b[2] - b[1] * a[2] + Shoelace(ring, i + 1)

\* polygonize(unary_union(linestrings)) for linework whose lines meet at
\* their ends only and close at most one loop: the polygon of that loop
polygonize(linestrings) ==
    With(Loops({{linestrings[k].start, linestrings[k].end} : k \in DOMAIN linestrings}), LAMBDA edges :
         IF edges = {} THEN <<>>
         ELSE With(Ring(edges, <<CHOOSE p \in UNION edges : TRUE>>), LAMBDA ring :
                   <<[vertices |-> ring, area2 |-> Abs(Shoelace(ring, 1))]>>))

SquareMetre == 160000

\* extract_regions_shapely: bridges of at most 0.10 m (more on the layers
\* of FORCE_CLOSE_LAYERS), then the polygons above 0.01 m2
extract_regions_shapely(segs) ==
    With(segments_to_linestrings(force_close_polygons(segs, 40)), LAMBDA linestrings :
         IF linestrings = <<>> THEN <<>>
         ELSE SelectSeq(polygonize(linestrings),
                        LAMBDA poly : 100 * poly.area2 > 2 * SquareMetre))

RECURSIVE InsertByArea(_, _)
InsertByArea(r, sorted) ==
    IF sorted = <<>> THEN <<r>>
    ELSE IF Head(sorted).area2 > r.area2 THEN <<Head(sorted)>> \o InsertByArea(r, Tail(sorted))
    ELSE <<r>> \o sorted

RECURSIVE SortByArea(_)
SortByArea(rs) == IF rs = <<>> THEN <<>> ELSE InsertByArea(Head(rs), SortByArea(Tail(rs)))

\* extract_regions with method "shapely", min_area 0.5 and max_area 1e6
extract_regions(segs) ==
    SortByArea(SelectSeq(extract_regions_shapely(segs),
                         LAMBDA r : /\ SquareMetre <= r.area2
                                    /\ \/ r.area2 \div (2 * SquareMetre) < 1000000
                                       \/ /\ r.area2 \div (2 * SquareMetre) = 1000000
                                          /\ r.area2 % (2 * SquareMetre) = 0))

----------------------------------------------------------------------------
(* The inputs of the model *)

Region(id, layer, rect, valid, area, perimeter) ==
    [some |-> TRUE, id |-> id, layer |-> layer, rect |-> rect, valid |-> valid,
     area |-> area, perimeter |-> perimeter]

\* a 10 m x 10 m room, a 3 m x 3 m room inside it, a wall given as a linear
\* region (area 0, perimeter 10.05 m), a region with an invalid polygon
BigRoom == Region("region_1", "mb-auxiliar", <<0, 0, 100, 100>>, TRUE, 1000000, 400000)
SmallRoom == Region("region_2", "a-arq-cielo falso", <<20, 20, 50, 50>>, TRUE, 90000, 120000)
Wall == Region("wall_1", "a-arq-tabiques", <<200, 0, 300, 2>>, TRUE, 0, 100500)
BadRegion == Region("bad_1", "0", <<0, 0, 0, 0>>, FALSE, 0, 0)

\* the walls of a room that is not closed, around (150, 150)
OpenRoom == << <<130, 130, 170, 130>>, <<170, 130, 170, 170>>,
               <<170, 170, 130, 170>>, <<130, 170, 130, 140>> >>
TwoWalls == << <<130, 130, 170, 130>>, <<170, 130, 170, 170>> >>

Drawings ==
    { [regions |-> <<>>, segments |-> OpenRoom],
      [regions |-> <<SmallRoom, BigRoom>>, segments |-> TwoWalls],
      [regions |-> <<Wall, BigRoom>>, segments |-> OpenRoom],
      [regions |-> <<BigRoom, Wall>>, segments |-> <<>>],
      [regions |-> <<BadRegion, BigRoom>>, segments |-> OpenRoom] }

Label(text, x, y) == [text |-> text, x |-> x, y |-> y]

LabelCatalogue ==
    << Label("IMPERMEABILIZACION", 30, 30),     \* inside both rooms
       Label("IMPERMEABILIZACION", 104, 50),    \* 0.4 m outside the big room
       Label("Membrana H=2.5", 250, 5),         \* 0.3 m from the wall
       Label("impermeabilizacin", 150, 150),    \* in the open room, far from regions
       Label("Imper.", 104, 50),
       Label("radier H=3,0", 250, 15) >>        \* 1.3 m from the wall

Item(kind, id, description, unit, expected_qty) ==
    [kind |-> kind, id |-> id, description |-> description, unit |-> unit,
     expected_qty |-> expected_qty]

\* kind: "ExcelItem" the dataclass of text_associator.py, "dict" a JSON
\* object (api/routes.py), "duck" an object with both .get and attributes.
\* expected_qty 0 models None.
ItemCatalogue ==
    << Item("duck", "1", "Impermeabilizacion", "m2", 1000000),
       Item("duck", "2", "Impermeabilizacion", "ml", 0),
       Item("duck", "3", "Impermeabilizacion", "un", 0),
       Item("duck", "4", "losa", "M2", 0),
       Item("duck", "5", "ab", "m2", 0),
       Item("ExcelItem", "6", "Impermeabilizacion", "m2", 0),
       Item("dict", "7", "Impermeabilizacion", "m2", 0) >>

Thresholds == {4000, 5000, 9900}

\* the rows of a catalogue picked by `rows`, in catalogue order
RECURSIVE Rows(_, _, _)
Rows(catalogue, rows, k) ==
    IF k > Len(catalogue) THEN <<>>
    ELSE (IF k \in rows THEN <<catalogue[k]>> ELSE <<>>) \o Rows(catalogue, rows, k + 1)

\* the lists of at most n rows of a catalogue
Lists(catalogue, n) ==
    {Rows(catalogue, rows, 1) :
        rows \in {r \in SUBSET DOMAIN catalogue : Cardinality(r) <= n}}

InitLocals == [detected_height |-> [set |-> FALSE, val |-> 0], segment_tree |-> "unset"]

NoPrev == [pc |-> "none", matched |-> 0, threshold |-> 0]

----------------------------------------------------------------------------
(* associate_text_to_regions as a state machine: one step per BOQ item *)

Init ==
    /\ \E d \in Drawings : regions = d.regions /\ segments = d.segments
    /\ labels \in Lists(LabelCatalogue, MaxLabels)
    /\ excel_items \in Lists(ItemCatalogue, MaxItems)
    /\ text_match_threshold \in Thresholds
    /\ shapely \in {"v1", "v2"}
    /\ item_index = 1
    /\ matches = <<>>
    /\ locals = InitLocals
    /\ pc = "run"
    /\ exc = "none"
    /\ run = 1
    /\ prev = NoPrev
    /\ ConfIdle
    /\ GapIdle
    /\ AuxIdle

inputs == <<regions, labels, excel_items, segments, shapely>>

ProcessItem ==
    /\ pc = "run"
    /\ item_index <= Len(excel_items)
    /\ \E t \in {0, 1} :
         \E r \in {AssociateItem(regions, labels, segments, text_match_threshold,
                                 shapely, t, excel_items[item_index], locals)} :
             IF r.exc # "none"
             THEN /\ pc' = "raised"
                  /\ exc' = r.exc
                  /\ matches' = <<>>
                  /\ locals' = r.locals
                  /\ item_index' = item_index
             ELSE /\ pc' = pc
                  /\ exc' = exc
                  /\ matches' = matches \o r.match
                  /\ locals' = r.locals
                  /\ item_index' = item_index + 1
    /\ UNCHANGED <<aux_vars, gap_vars, inputs, text_match_threshold, run, prev, conf_vars>>

Return ==
    /\ pc = "run"
    /\ item_index > Len(excel_items)
    /\ pc' = "done"
    /\ UNCHANGED <<aux_vars, gap_vars, inputs, text_match_threshold, item_index, matches, locals, exc, run, prev,
                   conf_vars>>

\* the number of BOQ items matched to a region
Matched(ms) == Cardinality({k \in DOMAIN ms : ms[k].region.some})

\* The caller runs the association again on the same input with a higher
\* text_match_threshold.
Rerun ==
    /\ pc \in {"done", "raised"}
    /\ run = 1
    /\ \E t2 \in Thresholds :
         /\ t2 > text_match_threshold
         /\ text_match_threshold' = t2
    /\ prev' = [pc |-> pc, matched |-> Matched(matches), threshold |-> text_match_threshold]
    /\ run' = 2
    /\ item_index' = 1
    /\ matches' = <<>>
    /\ locals' = InitLocals
    /\ pc' = "run"
    /\ exc' = "none"
    /\ UNCHANGED <<aux_vars, gap_vars, inputs, conf_vars>>

Next == ProcessItem \/ Return \/ Rerun

Spec == Init /\ [][Next]_vars

----------------------------------------------------------------------------
(* Properties of associate_text_to_regions *)

\* the items already handled by a returned call that must have a Match
Described == {k \in DOMAIN excel_items : TextInfo(excel_items[k].description).len >= 3}

\* the valid regions whose polygon strictly contains label j
Containing(j) ==
    {r \in DOMAIN regions : regions[r].valid
                            /\ Contains(regions[r].rect, labels[j].x, labels[j].y)}

\* the labels the matcher returns for item k at the current threshold
MatchingLabels(k) == find_matching_labels(excel_items[k], labels, text_match_threshold)

\* C1: when a label that text-matches a BOQ item lies strictly inside one or
\* more regions, find_zone does not raise, and the item is matched to the
\* least-area containing region with strategy inside_zone, an area unit
\* giving that region's area as quantity.  (Stated for a single item with a
\* single matching label, handed over as an object with .get and attributes.)
C1_InsideZone ==
    \A k \in DOMAIN excel_items :
        LET item == excel_items[k]
            ml == MatchingLabels(k)
        IN  (/\ Len(excel_items) = 1
             /\ item.kind = "duck"
             /\ k \in Described
             /\ Len(ml) = 1
             /\ Containing(ml[1].label) # {})
            => /\ exc \notin {"KeyError", "TypeError"}
               /\ pc # "raised"
               /\ pc = "done" =>
                    \E n \in DOMAIN matches :
                        LET m == matches[n]
                        IN  /\ m.excel_item = item
                            /\ m.region.some
                            /\ \E r \in Containing(ml[1].label) :
                                  /\ m.region.id = regions[r].id
                                  /\ \A q \in Containing(ml[1].label) :
                                        regions[r].area <= regions[q].area
                            /\ m.strategy = "inside_zone"
                            /\ LowerUnit(item.unit) \in AreaUnits
                                  => m.qty_calculated * 100 = m.region.area

\* C2: associate_text_to_regions never fails; a returned call holds exactly
\* one Match per item with a description of at least 3 characters; a Match
\* without a region has qty 0, confidence 0 and the reason "No spatial match
\* found"; a Match with a real region has its label within the search radius.
C2_NeverFails ==
    /\ pc # "raised"
    /\ pc = "done" =>
         /\ Len(matches) = Cardinality(Described)
         /\ \A n \in DOMAIN matches :
               LET m == matches[n]
               IN  /\ ~m.region.some =>
                        /\ m.qty_calculated = 0
                        /\ m.confidence = 0
                        /\ m.match_reason = "No spatial match found"
                   /\ (m.region.some /\ m.strategy # "fallback_estimator") =>
                        Dist2(m.region.rect, labels[m.label].x, labels[m.label].y)
                            <= Sq(SpatialSearchRadius)

\* The heights a Match of a linear region may use: those of the 'H=' labels
\* nearest to the region among the ones closer than 2 m, else 2.4.
HeightsFor(region) ==
    LET hl == {j \in DOMAIN labels :
                  /\ TextInfo(labels[j].text).h >= 0
                  /\ Dist2(region.rect, labels[j].x, labels[j].y) < Sq(20)}
        d(j) == Dist2(region.rect, labels[j].x, labels[j].y)
    IN  IF hl = {} THEN {240}
        ELSE {TextInfo(labels[j].text).h : j \in {i \in hl : \A o \in hl : d(i) <= d(o)}}

\* The quantities (as fractions [num, den]) C3 allows for a Match.
UnitFamilyQty(m) ==
    LET u == LowerUnit(m.excel_item.unit)
        r == m.region
    IN  IF u \in {"un", "u", "unidad", "c/u", "num", "gl"} THEN {[num |-> 10000, den |-> 10000]}
        ELSE IF u \in {"ml", "m", "metro lineal"} THEN {[num |-> r.perimeter, den |-> 10000]}
        ELSE IF ~(r.area < 100 /\ r.perimeter > 0) THEN {[num |-> r.area, den |-> 10000]}
        ELSE IF m.excel_item.description \in {"losa"}
        THEN {[num |-> RectArea(r.rect), den |-> 10000]}
        ELSE {[num |-> r.perimeter * h, den |-> 1000000] : h \in HeightsFor(r)}

C4_MinCombined ==
    \A n \in DOMAIN matches :
        matches[n].region.some => matches[n].confidence >= 60000

\* the regions of the drawing the matching labels of item k resolve to
ResolvedRegions(k) ==
    LET ml == MatchingLabels(k)
        res(j) == ResolveLabel(regions, SpatialIndex(regions), shapely, 0, segments,
                               labels[ml[j].label], "unset")
    IN  {res(j).region : j \in {i \in DOMAIN ml : /\ res(i).exc = "none"
                                                    /\ res(i).region.some
                                                    /\ ~res(i).broke}}

RECURSIVE SumQty(_, _)
SumQty(item, rs) ==
    IF rs = {} THEN 0
    ELSE LET r == CHOOSE r \in rs : TRUE
             q == Quantity(item, r, labels, [set |-> FALSE, val |-> 0]).qty
         IN  Round2(q.num, q.den) + SumQty(item, rs \ {r})

\* C5: when the matching labels of an item resolve to more than one region,
\* the item's Match has the sum of the per-region quantities and its reason
\* records an aggregation.
C5_Aggregation ==
    pc = "done" =>
        \A n \in DOMAIN matches :
            LET m == matches[n]
                k == CHOOSE k \in DOMAIN excel_items : excel_items[k] = m.excel_item
            IN  Cardinality({r.id : r \in ResolvedRegions(k)}) > 1 =>
                    /\ m.region.some
                    /\ m.qty_calculated = SumQty(m.excel_item, ResolvedRegions(k))
                    /\ m.match_reason \notin {"strategy | Auto-Height",
                                              "No spatial match found"}

\* C6: an item whose only matching label is neither inside nor within 0.5 m
\* of a region, and for which the fallback estimator returns a virtual
\* region, is matched to that region by fallback_estimator with a confidence
\* above 0.
C6_Fallback ==
    pc = "done" =>
        \A n \in DOMAIN matches :
            LET m == matches[n]
                k == CHOOSE k \in DOMAIN excel_items : excel_items[k] = m.excel_item
                ml == MatchingLabels(k)
                lbl == labels[ml[1].label]
            IN  (/\ Len(ml) = 1
                 /\ segments # <<>>
                 /\ \A r \in DOMAIN regions :
                       regions[r].valid => Dist2(regions[r].rect, lbl.x, lbl.y) > Sq(5)
                 /\ estimate_unclosed_area(lbl.x, lbl.y, segments, FallbackRadius).some)
                => /\ m.region.some
                   /\ m.region.layer = "Fallback Estimation"
                   /\ m.strategy = "fallback_estimator"
                   /\ m.confidence > 0

\* C7: a second run on the same input with a higher text_match_threshold
\* does not match more items to a region than the first.
C7_ThresholdMonotone ==
    (run = 2 /\ pc = "done" /\ prev.pc = "done") => Matched(matches) <= prev.matched

\* C8: every emitted Match has a confidence in [0, 1].
C8_ConfidenceRange ==
    \A n \in DOMAIN matches :
        0 <= matches[n].confidence /\ matches[n].confidence <= 100000

----------------------------------------------------------------------------
(* compute_confidence as a state machine: a caller computes the confidence *)
(* of a Match, then raises a factor or adds a sanity issue and computes it *)
(* again.                                                                  *)

\* Matches the matcher emits: the big room by proximity with the
\* expected-quantity bonus, the wall for a linear item, the big room on a
\* weak text match, an unmatched item.
ScoredMatches ==
    LET emit(rs, lbl, thr, item) ==
            AssociateItem(rs, <<LabelCatalogue[lbl]>>, <<>>, thr, "v1", 0,
                          ItemCatalogue[item], InitLocals).match[1]
    IN  { emit(<<BigRoom, Wall>>, 2, 5000, 1),
          emit(<<BigRoom, Wall>>, 3, 5000, 2),
          emit(<<BigRoom, Wall>>, 5, 4000, 2),
          emit(<<BigRoom, Wall>>, 4, 5000, 1) }

InitConf ==
    /\ regions = <<>> /\ labels = <<>> /\ excel_items = <<>> /\ segments = <<>>
    /\ text_match_threshold = 5000
    /\ shapely = "v1"
    /\ item_index = 1 /\ matches = <<>> /\ locals = InitLocals
    /\ pc = "idle" /\ exc = "none" /\ run = 1 /\ prev = NoPrev
    /\ cmatch \in ScoredMatches
    /\ sanity_result \in {NoSanity, run_sanity_checks(cmatch)}
                         \cup {SanityResult(w, e) : w \in 0..MaxWarnings, e \in 0..1}
    /\ given \in {ConfidenceFactors(tm, sm, gq, em) :
                     tm \in FactorLevels, sm \in FactorLevels,
                     gq \in {0, 80000}, em \in {0, 100000}}
    /\ factors = given
    /\ score = -1
    /\ before = [score |-> -1, change |-> "none", changes |-> 0]
    /\ cstage = "call"
    /\ GapIdle
    /\ AuxIdle

ComputeConfidence ==
    /\ cstage = "call"
    /\ score' = compute_confidence(cmatch, sanity_result, factors)
    /\ factors' = ExtractedFactors(cmatch, factors)
    /\ cstage' = "returned"
    /\ UNCHANGED <<aux_vars, gap_vars, assoc_vars, cmatch, sanity_result, given, before>>

\* the caller builds the factors anew with a higher text or spatial factor
RaiseFactor ==
    /\ cstage = "returned"
    /\ before.changes < MaxChanges
    /\ \E f \in {"text_match", "spatial_match"}, v \in FactorLevels :
          /\ v > given[f]
          /\ given' = [given EXCEPT ![f] = v]
          /\ factors' = given'
          /\ before' = [score |-> score, change |-> f, changes |-> before.changes + 1]
    /\ cstage' = "call"
    /\ UNCHANGED <<aux_vars, gap_vars, assoc_vars, cmatch, sanity_result, score>>

\* one more issue in the SanityResult; an error makes it fail
AddIssue ==
    /\ cstage = "returned"
    /\ before.changes < MaxChanges
    /\ \E severity \in {"warning", "error"} :
          sanity_result' =
              IF severity = "warning"
              THEN SanityResult(sanity_result.warnings + 1, sanity_result.errors)
              ELSE SanityResult(sanity_result.warnings, sanity_result.errors + 1)
    /\ factors' = given
    /\ before' = [score |-> score, change |-> "issue", changes |-> before.changes + 1]
    /\ cstage' = "call"
    /\ UNCHANGED <<aux_vars, gap_vars, assoc_vars, cmatch, given, score>>

NextConf == ComputeConfidence \/ RaiseFactor \/ AddIssue

SpecConf == InitConf /\ [][NextConf]_vars

\* C9: the returned confidence does not decrease when the text or spatial
\* factor is raised, and does not increase when a sanity issue is added.
C9_Monotone ==
    (cstage = "returned" /\ before.score >= 0) =>
        /\ before.change \in {"text_match", "spatial_match"} => score >= before.score
        /\ before.change = "issue" => score <= before.score

----------------------------------------------------------------------------
(* api/routes.py: cleanup_geometry, then extract_regions, on an open      *)
(* polyline that runs around a w x h rectangle and stops short of its     *)
(* starting point                                                         *)

SnapTolerance == 4

\* the polyline (0,0) (w,0) (w,h) (0,h) (0,gap), the first side in two
\* halves when split
OpenPolyline(w, h, gap, layer, split) ==
    (IF split THEN <<Segment(<<0, 0>>, <<w \div 2, 0>>, layer, "LWPOLYLINE"),
                     Segment(<<w \div 2, 0>>, <<w, 0>>, layer, "LWPOLYLINE")>>
     ELSE <<Segment(<<0, 0>>, <<w, 0>>, layer, "LWPOLYLINE")>>)
    \o <<Segment(<<w, 0>>, <<w, h>>, layer, "LWPOLYLINE"),
         Segment(<<w, h>>, <<0, h>>, layer, "LWPOLYLINE"),
         Segment(<<0, h>>, <<0, gap>>, layer, "LWPOLYLINE")>>

\* 0.4 m, 1 m, 2 m
Widths == {160, 400, 800}
Heights == {400, 800}
\* 5 mm, 3 cm, 8 cm, 15 cm
Gaps == {2, 12, 32, 60}
\* max_gap 0.01 and the default 0.05
MaxGaps == {4, 20}
Layers == {"0", "a-arq-cielo falso"}

InitGap ==
    /\ regions = <<>> /\ labels = <<>> /\ excel_items = <<>> /\ segments = <<>>
    /\ text_match_threshold = 5000
    /\ shapely \in {"v1", "v2"}
    /\ item_index = 1 /\ matches = <<>> /\ locals = InitLocals
    /\ pc = "idle" /\ exc = "none" /\ run = 1 /\ prev = NoPrev
    /\ ConfIdle
    /\ cad_segments \in {OpenPolyline(w, h, gap, layer, split) :
                            w \in Widths, h \in Heights, gap \in Gaps,
                            layer \in Layers, split \in BOOLEAN}
    /\ cleanup_max_gap \in MaxGaps
    /\ cleaned_segments = <<>>
    /\ extracted_regions = <<>>
    /\ gstage = "parsed"
    /\ AuxIdle

\* cleaned_segments = cleanup_geometry(cleanup_segments, snap_tolerance=0.01)
CleanupGeometry ==
    /\ gstage = "parsed"
    /\ \E first \in {"low", "high"} :
       \E r \in {cleanup_geometry(cad_segments, SnapTolerance, TRUE, TRUE, cleanup_max_gap, shapely, first)} :
          IF r.exc # "none"
          THEN /\ gstage' = "raised"
               /\ cleaned_segments' = cleaned_segments
          ELSE /\ gstage' = "cleaned"
               /\ cleaned_segments' = r.segments
    /\ UNCHANGED <<aux_vars, assoc_vars, conf_vars, cad_segments, cleanup_max_gap, extracted_regions>>

\* extracted_regions = extract_regions(cleaned_segments)
ExtractRegions ==
    /\ gstage = "cleaned"
    /\ extracted_regions' = extract_regions(cleaned_segments)
    /\ gstage' = "extracted"
    /\ UNCHANGED <<aux_vars, assoc_vars, conf_vars, cad_segments, cleanup_max_gap, cleaned_segments>>

NextGap == CleanupGeometry \/ ExtractRegions

SpecGap == InitGap /\ [][NextGap]_vars

\* the distance of the two free endpoints of the drawing, squared
FreeGap2(segs) ==
    With(Dangling(segs), LAMBDA dangling :
         IF Len(dangling) = 2 THEN PointDist2(dangling[1].pt, dangling[2].pt) ELSE -1)

\* twice the area the polyline runs around
Outlined2(segs) ==
    Abs(Shoelace(<<segs[1].start>> \o [k \in DOMAIN segs |-> segs[k].end], 1))

\* C10: an open polyline whose two free endpoints are 3 cm apart (around at
\* least min_area), cleaned up and extracted, gives exactly one region when
\* max_gap is 0.05 and no region when max_gap is 0.01.
C10_GapClosing ==
    (/\ gstage = "extracted"
     /\ FreeGap2(cad_segments) = Sq(12)
     /\ Outlined2(cad_segments) >= SquareMetre)
    => /\ cleanup_max_gap = 20 => Len(extracted_regions) = 1
       /\ cleanup_max_gap = 4 => extracted_regions = <<>>

----------------------------------------------------------------------------
(* core/geometry_cleanup.py: snap_vertices applied once and twice, and     *)
(* cleanup_geometry with every combination of its passes, on short lists   *)
(* of segments.  Coordinates are multiples of 60, so that the centroid of  *)
(* a cluster of input points is exact.                                     *)

MaxSegments == 3

\* the tolerance of snap_vertices in the units of SegmentCatalogue
CleanTolerance == 60

SegmentCatalogue ==
    << Segment(<<0, 0>>, <<60, 0>>, "0", "LINE"),
       Segment(<<120, 0>>, <<360, 0>>, "0", "LINE"),
       Segment(<<360, 0>>, <<600, 0>>, "0", "LINE"),
       Segment(<<600, 0>>, <<600, 360>>, "0", "LINE"),
       Segment(<<600, 480>>, <<0, 480>>, "0", "LINE"),
       Segment(<<0, 0>>, <<0, 0>>, "0", "LINE"),
       Segment(<<0, 480>>, <<0, 0>>, "0", "LINE"),
       Segment(<<600, 360>>, <<600, 400>>, "0", "LINE") >>

AssocIdle ==
    /\ regions = <<>> /\ labels = <<>> /\ excel_items = <<>> /\ segments = <<>>
    /\ text_match_threshold = 5000
    /\ item_index = 1 /\ matches = <<>> /\ locals = InitLocals
    /\ pc = "idle" /\ exc = "none" /\ run = 1 /\ prev = NoPrev

InitClean ==
    /\ AssocIdle /\ shapely \in {"v1", "v2"}
    /\ ConfIdle
    /\ GapIdle
    /\ ExtractIdle
    /\ ClassifyIdle
    /\ ServeIdle
    /\ WorkerIdle
    /\ WalkIdle
    /\ CloseIdle
    /\ MatchIdle
    /\ FilterIdle
    /\ raw_segments \in Lists(SegmentCatalogue, MaxSegments)
    /\ passes \in [merge_collinear_enabled : BOOLEAN, close_gaps : BOOLEAN,
                   max_gap : {60, 130}]
    /\ snapped = <<>>
    /\ resnapped = <<>>
    /\ cleaned = <<>>
    /\ clstage = "input"
    /\ UnitIdle
    /\ ExplodeIdle
    /\ TaskIdle

\* snap_vertices(segments, tolerance)
SnapVertices ==
    /\ clstage = "input"
    /\ snapped' = snap_vertices(raw_segments, CleanTolerance)
    /\ clstage' = "snapped"
    /\ UNCHANGED <<assoc_vars, conf_vars, gap_vars, extract_vars, classify_vars, serve_vars, worker_vars, walk_vars, close_vars, match_vars, filter_vars, unit_vars, explode_vars, task_vars, raw_segments, passes, resnapped, cleaned>>

\* snap_vertices on the result, same tolerance
SnapAgain ==
    /\ clstage = "snapped"
    /\ resnapped' = snap_vertices(snapped, CleanTolerance)
    /\ clstage' = "resnapped"
    /\ UNCHANGED <<assoc_vars, conf_vars, gap_vars, extract_vars, classify_vars, serve_vars, worker_vars, walk_vars, close_vars, match_vars, filter_vars, unit_vars, explode_vars, task_vars, raw_segments, passes, snapped, cleaned>>

\* cleanup_geometry(segments, snap_tolerance, merge_collinear_enabled,
\* close_gaps, max_gap)
Cleanup ==
    /\ clstage = "input"
    /\ \E first \in {"low", "high"} :
       \E r \in {cleanup_geometry(raw_segments, CleanTolerance, passes.merge_collinear_enabled,
                                  passes.close_gaps, passes.max_gap, shapely, first)} :
          IF r.exc # "none"
          THEN /\ clstage' = "raised"
               /\ cleaned' = cleaned
          ELSE /\ clstage' = "cleaned"
               /\ cleaned' = r.segments
    /\ UNCHANGED <<assoc_vars, conf_vars, gap_vars, extract_vars, classify_vars, serve_vars, worker_vars, walk_vars, close_vars, match_vars, filter_vars, unit_vars, explode_vars, task_vars, raw_segments, passes, snapped, resnapped>>

NextClean == SnapVertices \/ SnapAgain \/ Cleanup

SpecClean == InitClean /\ [][NextClean]_vars

\* C11: snap_vertices is idempotent: snapping the snapped segments again
\* with the same tolerance gives the same segments, in the same order.
C11_SnapIdempotent ==
    clstage = "resnapped" => resnapped = snapped

\* the bridges gap closing added
BridgesAdded(segs) ==
    Cardinality({k \in DOMAIN segs : segs[k].entity_type = "GAP_CLOSE"})

\* C12: cleanup_geometry returns at most as many segments as it was given
\* plus the bridges that gap closing added, and none of zero length.
C12_CleanupSize ==
    clstage = "cleaned" =>
        /\ Len(cleaned) <= Len(raw_segments) + BridgesAdded(cleaned)
        /\ \A k \in DOMAIN cleaned : cleaned[k].start # cleaned[k].end

\* a cleanup that was given a segment of zero length, dropped a segment and
\* added a bridge
C12_Witness ==
    /\ clstage = "cleaned"
    /\ \E k \in DOMAIN raw_segments : raw_segments[k].start = raw_segments[k].end
    /\ BridgesAdded(cleaned) > 0
    /\ Len(cleaned) < Len(raw_segments) + BridgesAdded(cleaned)

----------------------------------------------------------------------------
(* core/dxf_parser.py: get_unit_factor.  Factors are in 1/10000.           *)

\* factors: $INSUNITS -> (factor, name, confidence)
UnitFactors ==
    [c \in {1, 2, 4, 5, 6} |->
        CASE c = 1 -> <<254, "Inches", "High">>
          [] c = 2 -> <<3048, "Feet", "High">>
          [] c = 4 -> <<10, "Millimeters", "High">>
          [] c = 5 -> <<100, "Centimeters", "High">>
          [] c = 6 -> <<10000, "Meters", "High">>]

\* hint_map
HintMap ==
    [h \in {"mm", "cm", "m", "in", "ft"} |->
        CASE h = "mm" -> <<10, "Millimeters (Hint)">>
          [] h = "cm" -> <<100, "Centimeters (Hint)">>
          [] h = "m" -> <<10000, "Meters (Hint)">>
          [] h = "in" -> <<254, "Inches (Hint)">>
          [] h = "ft" -> <<3048, "Feet (Hint)">>]

\* the hint strings of the model
Hints == {"mm", "cm", "m", "in", "ft", "MM", " m ", "km", ""}

\* hint_unit.lower().strip()
NormHint(h) == CASE h = "MM" -> "mm" [] h = " m " -> "m" [] OTHER -> h

\* get_unit_factor(doc, hint_unit): insunits is $INSUNITS, width and height
\* the differences of $EXTMAX and $EXTMIN
get_unit_factor(insunits, hint_unit, width, height) ==
    IF insunits \in DOMAIN UnitFactors THEN UnitFactors[insunits]
    ELSE IF insunits = 0 /\ hint_unit \notin {None, ""} /\ NormHint(hint_unit) \in DOMAIN HintMap
    THEN <<HintMap[NormHint(hint_unit)][1], HintMap[NormHint(hint_unit)][2], "Medium">>
    ELSE IF insunits = 0
    THEN With(Max(width, height), LAMBDA max_dim :
              IF max_dim > 5000 THEN <<10, "Millimeters (Inferred)", "Medium">>
              ELSE IF max_dim < 2000 THEN <<10000, "Meters (Inferred)", "Medium">>
              ELSE <<10000, "Meters (Default)", "Low">>)
    ELSE <<10000, "Meters (Fallback)", "Low">>

\* hint_unit where the caller passes none: process_dxf_task(file_path,
\* hint_unit="m"), parse_dxf_file(file_path, hint_unit=None)
DefaultHint(entry) == IF entry = "process_dxf_task" THEN "m" ELSE None

Absent == "absent"

InitUnits ==
    /\ AssocIdle /\ shapely = "v2"
    /\ ConfIdle
    /\ GapIdle
    /\ ExtractIdle
    /\ ClassifyIdle
    /\ ServeIdle
    /\ WorkerIdle
    /\ WalkIdle
    /\ CloseIdle
    /\ MatchIdle
    /\ FilterIdle
    /\ CleanIdle
    /\ unit_call \in [entry : {"process_dxf_task", "parse_dxf_file"},
                      hint : Hints \cup {None, Absent},
                      insunits : 0..7,
                      width : {1000, 2000, 5000, 25000},
                      height : {500, 3000, 18000}]
    /\ unit_result = None
    /\ ExplodeIdle
    /\ TaskIdle

\* result = parse_dxf_file(file_path, hint_unit=hint_unit), of which
\* unit_factor, detected_unit, unit_confidence = get_unit_factor(doc, hint_unit)
ParseUnits ==
    /\ unit_call # <<>>
    /\ unit_result = None
    /\ unit_result' = get_unit_factor(unit_call.insunits,
                                      IF unit_call.hint = Absent
                                      THEN DefaultHint(unit_call.entry) ELSE unit_call.hint,
                                      unit_call.width, unit_call.height)
    /\ UNCHANGED <<assoc_vars, conf_vars, gap_vars, extract_vars, classify_vars, serve_vars, worker_vars, walk_vars, close_vars, match_vars, filter_vars, clean_vars, explode_vars, task_vars, unit_call>>

NextUnits == ParseUnits

SpecUnits == InitUnits /\ [][NextUnits]_vars

\* what the priority of C16 gives for a call: (factor, confidence)
UnitPriority(call) ==
    IF call.insunits \in {1, 2, 4, 5, 6}
    THEN <<UnitFactors[call.insunits][1], "High">>
    ELSE IF /\ call.insunits = 0
            /\ call.hint \notin {None, Absent, ""}
            /\ NormHint(call.hint) \in {"mm", "cm", "m", "in", "ft"}
    THEN <<HintMap[NormHint(call.hint)][1], "Medium">>
    ELSE IF Max(call.width, call.height) > 5000 THEN <<10, "Medium">>
    ELSE IF Max(call.width, call.height) < 2000 THEN <<10000, "Medium">>
    ELSE <<10000, "Low">>

\* C16: header code in {1,2,4,5,6} gives that unit with High; otherwise code
\* 0 with a hint gives the hint's unit with Medium; otherwise the extents
\* decide.  Without a hint a code-0 drawing of 25,000 x 18,000 is reported
\* as "Millimeters (Inferred)", Medium, factor 0.001.
C16_UnitPriority ==
    unit_result # None =>
        /\ <<unit_result[1], unit_result[3]>> = UnitPriority(unit_call)
        /\ (/\ unit_call.hint = Absent /\ unit_call.insunits = 0
            /\ unit_call.width = 25000 /\ unit_call.height = 18000)
           => unit_result = <<10, "Millimeters (Inferred)", "Medium">>

----------------------------------------------------------------------------
(* core/dxf_parser.py: explode_block on a chain of nested inserts.  Every  *)
(* block but the innermost holds the insert of the next one, the innermost *)
(* holds the LINE (0,0)-(10,0).  Rotations are quarter turns.              *)

MaxNesting == 2

\* max_depth of explode_block
MaxDepth == 10

BlockLine == Segment(<<0, 0>>, <<10, 0>>, "0", "LINE")

\* the INSERT entities of the model: dxf.insert, dxf.rotation, dxf.xscale,
\* dxf.yscale
Inserts ==
    [insert : {<<20, 0>>, <<0, 5>>, <<100, 0>>}, rotation : {0, 90},
     xscale : {1, 2}, yscale : {1}]

\* "Apply block transformation": seg.start.x * scale_x + offset_x, ...
BlockTransform(insert, p) ==
    <<p[1] * insert.xscale + insert.insert[1], p[2] * insert.yscale + insert.insert[2]>>

\* explode_block(insert, doc, depth): inserts[1] is the insert, the rest is
\* what its block leads to.  The segments of a nested insert are taken as
\* the recursive call returns them.
RECURSIVE explode_block(_, _)
explode_block(inserts, depth) ==
    IF depth > MaxDepth THEN <<>>
    ELSE IF Len(inserts) > 1 THEN explode_block(Tail(inserts), depth + 1)
    ELSE <<Segment(BlockTransform(inserts[1], BlockLine.start),
                   BlockTransform(inserts[1], BlockLine.end),
                   BlockLine.layer, BlockLine.entity_type)>>

RECURSIVE InsertChains(_)
InsertChains(n) ==
    IF n = 0 THEN {<<>>}
    ELSE {<<i>> \o c : i \in Inserts, c \in InsertChains(n - 1)}

InitExplode ==
    /\ AssocIdle /\ shapely = "v2"
    /\ ConfIdle
    /\ GapIdle
    /\ ExtractIdle
    /\ ClassifyIdle
    /\ ServeIdle
    /\ WorkerIdle
    /\ WalkIdle
    /\ CloseIdle
    /\ MatchIdle
    /\ FilterIdle
    /\ CleanIdle
    /\ UnitIdle
    /\ explode_call \in UNION {InsertChains(n) : n \in 1..MaxNesting}
    /\ explode_result = None
    /\ TaskIdle

\* segs, texts = explode_block(entity, doc)
ExplodeBlock ==
    /\ explode_call # <<>>
    /\ explode_result = None
    /\ explode_result' = explode_block(explode_call, 0)
    /\ UNCHANGED <<assoc_vars, conf_vars, gap_vars, extract_vars, classify_vars, serve_vars, worker_vars, walk_vars, close_vars, match_vars, filter_vars, clean_vars, unit_vars, task_vars, explode_call>>

NextExplode == ExplodeBlock

SpecExplode == InitExplode /\ [][NextExplode]_vars

\* scale, then rotation by the insert's angle, then translation
InsertTransform(insert, p) ==
    LET sx == p[1] * insert.xscale
        sy == p[2] * insert.yscale
        r == CASE insert.rotation = 0 -> <<sx, sy>>
               [] insert.rotation = 90 -> <<-sy, sx>>
               [] insert.rotation = 180 -> <<-sx, -sy>>
               [] insert.rotation = 270 -> <<sy, -sx>>
    IN  <<r[1] + insert.insert[1], r[2] + insert.insert[2]>>

\* the transforms of all inserts, innermost first, outermost last
RECURSIVE Composed(_, _)
Composed(inserts, p) ==
    IF inserts = <<>> THEN p
    ELSE InsertTransform(Head(inserts), Composed(Tail(inserts), p))

\* C17: explode_block maps the endpoints of a primitive through the
\* transforms (scale, rotation, translation) of all enclosing inserts,
\* innermost first.
C17_ExplodeTransform ==
    explode_result # None =>
        /\ Len(explode_result) = 1
        /\ explode_result[1].start = Composed(explode_call, BlockLine.start)
        /\ explode_result[1].end = Composed(explode_call, BlockLine.end)

----------------------------------------------------------------------------
(* core/processing_task.py: process_dxf_task, the path of the segments     *)
(* from the entities of the drawing to the response.  The drawing is in    *)
(* metres (the default hint "m" gives the factor 1.0).  MAX_SEGMENTS, 200000 *)
(* in the code, is scaled down so that a drawing of a few entities goes    *)
(* over the limit.                                                         *)

MaxEntities == 3

MAX_SEGMENTS == 4

\* layer names of the model and their lower-case letters
TaskLayers == {"A-MURO", "Wall", "COTAS"}

LayerLower(layer) ==
    CASE layer = "A-MURO" -> <<"a", "-", "m", "u", "r", "o">>
      [] layer = "Wall" -> <<"w", "a", "l", "l">>
      [] layer = "COTAS" -> <<"c", "o", "t", "a", "s">>

whitelist_patterns ==
    << <<"a", "r", "q">>, <<"m", "b">>, <<"m", "u">>, <<"t", "a", "b">>,
       <<"p", "u">>, <<"v", "e", "n">>, <<"m", "u", "r", "o">>,
       <<"w", "a", "l", "l">>, <<"d", "o", "o", "r">>,
       <<"w", "i", "n", "d", "o", "w">>,
       <<"p", "a", "r", "t", "i", "t", "i", "o", "n">>,
       <<"r", "o", "o", "m">>, <<"s", "p", "a", "c", "e">>,
       <<"b", "o", "u", "n", "d", "a", "r", "y">> >>

\* pattern in layer_lower
IsInfix(pattern, text) ==
    \E k \in 0..(Len(text) - Len(pattern)) :
        \A j \in 1..Len(pattern) : text[k + j] = pattern[j]

\* is_architectural = any(pattern in layer_lower for pattern in whitelist_patterns)
is_architectural(layer) ==
    \E k \in DOMAIN whitelist_patterns : IsInfix(whitelist_patterns[k], LayerLower(layer))

Entity(dxftype, points, closed, layer) ==
    [dxftype |-> dxftype, points |-> points, closed |-> closed, layer |-> layer]

\* the entities a drawing of the model is made of
EntityCatalogue ==
    { Entity("LINE", <<(<<0, 0>>), (<<10, 0>>)>>, FALSE, "A-MURO"),
      Entity("LINE", <<(<<10, 0>>), (<<10, 0>>)>>, FALSE, "Wall"),
      Entity("LINE", <<(<<0, 20>>), (<<10, 20>>)>>, FALSE, "COTAS"),
      Entity("LWPOLYLINE", <<(<<0, 0>>), (<<10, 0>>), (<<10, 10>>), (<<0, 0>>)>>, TRUE, "A-MURO"),
      Entity("LWPOLYLINE", <<(<<20, 0>>), (<<30, 0>>), (<<30, 10>>)>>, TRUE, "Wall"),
      Entity("LWPOLYLINE", <<(<<20, 20>>), (<<30, 20>>), (<<30, 30>>)>>, FALSE, "A-MURO"),
      Entity("HATCH", <<(<<0, 0>>), (<<50, 0>>), (<<50, 50>>), (<<0, 50>>)>>, TRUE, "A-MURO"),
      Entity("HATCH", <<(<<0, 0>>), (<<200, 0>>), (<<200, 100>>), (<<0, 100>>), (<<0, 0>>)>>, TRUE, "COTAS") }

\* core/dxf_parser.py: extract_line_segments for LINE and LWPOLYLINE
extract_line_segments(entity) ==
    IF entity.dxftype = "HATCH" THEN <<>>
    ELSE IF entity.dxftype = "LINE"
    THEN <<Segment(entity.points[1], entity.points[2], entity.layer, "LINE")>>
    ELSE [i \in 1..(Len(entity.points) - 1) |->
              Segment(entity.points[i], entity.points[i + 1], entity.layer, "LWPOLYLINE")]
         \o (IF entity.closed /\ Len(entity.points) > 2
             THEN <<Segment(entity.points[Len(entity.points)], entity.points[1],
                            entity.layer, "LWPOLYLINE")>>
             ELSE <<>>)

\* core/dxf_parser.py: parse_dxf_file, all_segments.extend(segs) over the modelspace
RECURSIVE AllSegments(_)
AllSegments(entities) ==
    IF entities = <<>> THEN <<>>
    ELSE extract_line_segments(Head(entities)) \o AllSegments(Tail(entities))

\* the whitelist: filtered_segments.append(s) if is_architectural
Whitelisted(segs) == SelectSeq(segs, LAMBDA seg : is_architectural(seg.layer))

\* the sampling loop: every int(sampling_rate)-th segment, until MAX_SEGMENTS
\* are kept; i counts from 1 here, from 0 in the code
RECURSIVE SampleLoop(_, _, _, _)
SampleLoop(segs, i, step, sampled) ==
    IF i > Len(segs) THEN sampled
    ELSE With(IF (i - 1) % step = 0 THEN Append(sampled, segs[i]) ELSE sampled,
              LAMBDA kept : IF Len(kept) >= MAX_SEGMENTS THEN kept
                            ELSE SampleLoop(segs, i + 1, step, kept))

\* "Apply hard limit with intelligent sampling if needed"
ApplyLimit(segs) ==
    IF Len(segs) > MAX_SEGMENTS
    THEN SampleLoop(segs, 1, Len(segs) \div MAX_SEGMENTS, <<>>)
    ELSE segs

\* Coordinates are in 1/100 m and areas in 1/10000 m2; the area of a
\* buffer polygon, before it is rounded, is in 1/100000 m2.

coarse_threshold == 100000

medium_threshold == 10000

Polygon(area, is_valid) == [area |-> area, is_valid |-> is_valid]

\* list(buffered.geoms) at the three tolerances: what the geometry library
\* returns for the lines of a layer.  Every layer of a drawing gets the same.
BufferOutcomes ==
    { [coarse |-> <<Polygon(1250000, TRUE)>>,
       medium |-> <<Polygon(300000, TRUE), Polygon(1250000, TRUE)>>,
       fine |-> <<Polygon(23142, TRUE), Polygon(23142, TRUE)>>],
      [coarse |-> <<>>, medium |-> <<>>, fine |-> <<>>],
      [coarse |-> <<Polygon(4, TRUE)>>,
       medium |-> <<Polygon(99996, TRUE)>>,
       fine |-> <<Polygon(99996, TRUE), Polygon(4, TRUE)>>],
      [coarse |-> <<Polygon(1000000, TRUE), Polygon(2000000, FALSE)>>,
       medium |-> <<Polygon(100000, TRUE)>>,
       fine |-> <<Polygon(50000, TRUE)>>],
      [coarse |-> <<Polygon(1000000, TRUE)>>,
       medium |-> <<Polygon(100000, TRUE)>>,
       fine |-> <<Polygon(50000, TRUE), Polygon(23142, TRUE), Polygon(23458, TRUE)>>] }

\* round(area, 4): 1/100000 m2 to 1/10000 m2, half to even
Round4(area) ==
    IF 2 * (area % 10) < 10 THEN area \div 10
    ELSE IF 2 * (area % 10) > 10 THEN area \div 10 + 1
    ELSE IF (area \div 10) % 2 = 0 THEN area \div 10 ELSE area \div 10 + 1

\* core/multi_resolution_extractor.py: the filter of _extract_at_resolution;
\* thresholds in 1/10000 m2, the polygon's area in 1/100000 m2
KeepsPolygon(poly, resolution, min_area) ==
    /\ poly.is_valid
    /\ ~(poly.area < 10 * min_area)
    /\ ~(resolution = "coarse" /\ poly.area < 10 * coarse_threshold)
    /\ ~(resolution = "medium" /\ (poly.area < 10 * medium_threshold
                                     \/ poly.area >= 10 * coarse_threshold))
    /\ ~(resolution = "fine" /\ poly.area >= 10 * medium_threshold)

RECURSIVE ExtractFrom(_, _, _, _, _)
ExtractFrom(polygons, i, resolution, min_area, layer) ==
    IF i > Len(polygons) THEN <<>>
    ELSE (IF KeepsPolygon(polygons[i], resolution, min_area)
          THEN <<[id |-> <<layer, resolution, i - 1>>, layer |-> layer,
                  resolution |-> resolution, area |-> Round4(polygons[i].area),
                  is_hatch |-> FALSE]>>
          ELSE <<>>)
         \o ExtractFrom(polygons, i + 1, resolution, min_area, layer)

extract_at_resolution(polygons, resolution, min_area, layer) ==
    ExtractFrom(polygons, 1, resolution, min_area, layer)

\* the regions of the three resolutions, 'coarse', 'medium', 'fine' in turn
extract_multi_resolution(buffered, layer) ==
    extract_at_resolution(buffered.coarse, "coarse", coarse_threshold, layer)
    \o extract_at_resolution(buffered.medium, "medium", medium_threshold, layer)
    \o extract_at_resolution(buffered.fine, "fine", 0, layer)

\* the keys of layer_segments, in the order of first appearance
RECURSIVE LayerOrder(_, _)
LayerOrder(segs, seen) ==
    IF segs = <<>> THEN <<>>
    ELSE IF Head(segs).layer \in seen THEN LayerOrder(Tail(segs), seen)
    ELSE <<Head(segs).layer>> \o LayerOrder(Tail(segs), seen \cup {Head(segs).layer})

\* all_regions_multiRes: every region of every resolution of every layer
RECURSIVE CollectLayers(_, _)
CollectLayers(layers, buffered) ==
    IF layers = <<>> THEN <<>>
    ELSE extract_multi_resolution(buffered, Head(layers)) \o CollectLayers(Tail(layers), buffered)

MultiResRegions(segs, buffered) == CollectLayers(LayerOrder(segs, {}), buffered)

\* core/dxf_parser.py: extract_hatch_regions for one closed PolylinePath,
\* the hatch carrying no area of its own
ClosedPath(points) ==
    IF points[1] # points[Len(points)] THEN Append(points, points[1]) ELSE points

RECURSIVE ShoelaceSum(_, _)
ShoelaceSum(vertices, i) ==
    IF i >= Len(vertices) THEN 0
    ELSE vertices[i][1] * vertices[i + 1][2] - vertices[i + 1][1] * vertices[i][2]
         + ShoelaceSum(vertices, i + 1)

\* calc_area = abs(s) * 0.5, exact for the even coordinates of the model
HatchArea(vertices) == Abs(ShoelaceSum(vertices, 1)) \div 2

extract_hatch_regions(entity) ==
    IF Len(ClosedPath(entity.points)) > 2 /\ 100 * HatchArea(ClosedPath(entity.points)) > 1
    THEN <<[id |-> <<"hatch">>, layer |-> entity.layer, resolution |-> "fine",
            area |-> HatchArea(ClosedPath(entity.points)), is_hatch |-> TRUE]>>
    ELSE <<>>

\* result.precomputed_regions, as api_regions receives them
RECURSIVE HatchRegions(_)
HatchRegions(entities) ==
    IF entities = <<>> THEN <<>>
    ELSE (IF Head(entities).dxftype = "HATCH" THEN extract_hatch_regions(Head(entities))
          ELSE <<>>)
         \o HatchRegions(Tail(entities))

InitTask ==

    /\ AssocIdle /\ shapely = "v2"
    /\ ConfIdle
    /\ GapIdle
    /\ ExtractIdle
    /\ ClassifyIdle
    /\ ServeIdle
    /\ WorkerIdle
    /\ WalkIdle
    /\ CloseIdle
    /\ MatchIdle
    /\ FilterIdle
    /\ CleanIdle
    /\ UnitIdle
    /\ ExplodeIdle
    /\ dxf_entities \in UNION {[1..n -> EntityCatalogue] : n \in 0..MaxEntities}
    /\ parsed_segments = None
    /\ filtered_segments = None
    /\ api_segments = None
    /\ buffer_polygons \in BufferOutcomes
    /\ api_regions = <<>>
    /\ tstage = "input"

\* result = parse_dxf_file(file_path, hint_unit=hint_unit)
ParseDxfFile ==
    /\ tstage = "input"
    /\ parsed_segments' = AllSegments(dxf_entities)
    /\ tstage' = "parsed"
    /\ UNCHANGED <<assoc_vars, conf_vars, gap_vars, extract_vars, classify_vars, serve_vars, worker_vars, walk_vars, close_vars, match_vars, filter_vars, clean_vars, unit_vars, explode_vars,
                   dxf_entities, filtered_segments, api_segments, buffer_polygons,
                   api_regions>>

\* the whitelist and the hard limit
LayerFiltering ==
    /\ tstage = "parsed"
    /\ filtered_segments' = ApplyLimit(Whitelisted(parsed_segments))
    /\ tstage' = "filtered"
    /\ UNCHANGED <<assoc_vars, conf_vars, gap_vars, extract_vars, classify_vars, serve_vars, worker_vars, walk_vars, close_vars, match_vars, filter_vars, clean_vars, unit_vars, explode_vars,
                   dxf_entities, parsed_segments, api_segments, buffer_polygons,
                   api_regions>>

\* cleanup_segments and, from them, api_segments
BuildResponse ==
    /\ tstage = "filtered"
    /\ api_segments' = filtered_segments
    /\ api_regions' = MultiResRegions(filtered_segments, buffer_polygons)
                         \o HatchRegions(dxf_entities)
    /\ tstage' = "done"
    /\ UNCHANGED <<assoc_vars, conf_vars, gap_vars, extract_vars, classify_vars, serve_vars, worker_vars, walk_vars, close_vars, match_vars, filter_vars, clean_vars, unit_vars, explode_vars,
                   dxf_entities, parsed_segments, filtered_segments, buffer_polygons>>

NextTask == ParseDxfFile \/ LayerFiltering \/ BuildResponse

SpecTask == InitTask /\ [][NextTask]_vars

\* the positions 0, s, 2s, ... of a list, s = ceil(N / MAX_SEGMENTS)
EverySth(segs) ==
    With((Len(segs) + MAX_SEGMENTS - 1) \div MAX_SEGMENTS,
         LAMBDA step : [k \in 1..((Len(segs) + step - 1) \div step) |-> segs[(k - 1) * step + 1]])

\* C18: when more than MAX_SEGMENTS segments are whitelisted, the segments
\* kept are exactly those at the positions 0, s, 2s, ... of the whitelisted
\* list, s = ceil(N / MAX_SEGMENTS): at most MAX_SEGMENTS, spread over the
\* whole list.
C18_UniformSampling ==
    (tstage \in {"filtered", "done"} /\ Len(Whitelisted(parsed_segments)) > MAX_SEGMENTS) =>
        /\ filtered_segments = EverySth(Whitelisted(parsed_segments))
        /\ Len(filtered_segments) <= MAX_SEGMENTS

\* min_area and max_area of extract_regions: 0.5 m2 in 1/10000 m2, and
\* 1,000,000 in m2
DefaultMinArea == 5000

DefaultMaxArea == 1000000

AreaInRange(area) ==
    /\ area > 0
    /\ area >= DefaultMinArea
    /\ \/ area \div 10000 < DefaultMaxArea
       \/ area \div 10000 = DefaultMaxArea /\ area % 10000 = 0

\* C14: every region of the response has area > 0 and
\* min_area <= area <= max_area, whichever source produced it.
C14_AreaBounds ==
    tstage = "done" => \A k \in DOMAIN api_regions : AreaInRange(api_regions[k].area)

\* round(area, 2) of an area in 1/10000 m2, in 1/100 m2, half to even
RoundArea2(area) ==
    IF 2 * (area % 100) < 100 THEN area \div 100
    ELSE IF 2 * (area % 100) > 100 THEN area \div 100 + 1
    ELSE IF (area \div 100) % 2 = 0 THEN area \div 100 ELSE area \div 100 + 1

AreaKey(region) == <<region.layer, RoundArea2(region.area)>>

\* the regions of the response that came from the multi-resolution extraction
MultiResOutput == SelectSeq(api_regions, LAMBDA r : ~r.is_hatch)

\* C15: in the multi-resolution regions of the response no two share the
\* key (layer, round(area, 2)); of the regions produced with one key the
\* first in the order coarse, medium, fine is the one kept, and every key
\* produced is there.
C15_DedupKey ==
    tstage = "done" =>
        /\ \A j, k \in DOMAIN MultiResOutput :
               j # k => AreaKey(MultiResOutput[j]) # AreaKey(MultiResOutput[k])
        /\ \A layer \in TaskLayers :
               \A k \in DOMAIN extract_multi_resolution(buffer_polygons, layer) :
                   With(extract_multi_resolution(buffer_polygons, layer),
                        LAMBDA produced :
                            (\E i \in DOMAIN filtered_segments : filtered_segments[i].layer = layer
                             /\ \A j \in 1..(k - 1) : AreaKey(produced[j]) # AreaKey(produced[k]))
                            => \E o \in DOMAIN MultiResOutput : MultiResOutput[o] = produced[k])

NoZeroLength(segs) == \A k \in DOMAIN segs : segs[k].start # segs[k].end

\* C13: no stage hands on a zero-length segment: the extractor's list, the
\* layer-filtered list (which region extraction receives) and the segments
\* of the response hold none.
C13_NoZeroLength ==
    /\ tstage \in {"parsed", "filtered", "done"} => NoZeroLength(parsed_segments)
    /\ tstage \in {"filtered", "done"} => NoZeroLength(filtered_segments)
    /\ tstage = "done" => NoZeroLength(api_segments)

----------------------------------------------------------------------------
(* core/layer_filter.py: filter_segments.  A layer name is a string; its   *)
(* letters are given by LayerName, and upper() works letter by letter.     *)

MaxFiltered == 3

BLACKLIST_KEYWORDS ==
    << <<"F", "U", "R", "N">>,
       <<"M", "U", "E", "B">>,
       <<"S", "I", "L", "L", "A">>,
       <<"M", "E", "S", "A">>,
       <<"S", "O", "F", "A">>,
       <<"C", "A", "M">>,
       <<"B", "E", "D">>,
       <<"C", "L", "O", "S", "E", "T">>,
       <<"V", "E", "G">>,
       <<"A", "R", "B">>,
       <<"T", "R", "E", "E">>,
       <<"P", "L", "A", "N", "T">>,
       <<"J", "A", "R", "D", "I", "N">>,
       <<"P", "A", "I", "S", "A", "J", "E">>,
       <<"T", "E", "X", "T">>,
       <<"T", "X", "T">>,
       <<"N", "O", "T", "A">>,
       <<"A", "N", "N", "O">>,
       <<"D", "I", "M">>,
       <<"C", "O", "T", "A">>,
       <<"E", "T", "I", "Q", "U", "E", "T", "A">>,
       <<"L", "A", "B", "E", "L">>,
       <<"P", "A", "T", "T">>,
       <<"P", "A", "T", "T", "E", "R", "N">>,
       <<"R", "E", "L", "L", "E", "N", "O">>,
       <<"S", "O", "M", "B", "R", "A">>,
       <<"D", "E", "F", "P", "O", "I", "N", "T", "S">>,
       <<"V", "I", "E", "W", "P", "O", "R", "T">> >>

\* the layer names of the segments of the model
FilterLayers == {"A-WALL", "a-furn", "MB-FLOOR", "A-VEG", "", "RANDOM_LAYER", "I-Mueble"}

LayerName(layer) ==
    CASE
         layer = "A-WALL" -> <<"A", "-", "W", "A", "L", "L">>
      [] layer = "a-furn" -> <<"a", "-", "f", "u", "r", "n">>
      [] layer = "MB-FLOOR" -> <<"M", "B", "-", "F", "L", "O", "O", "R">>
      [] layer = "A-VEG" -> <<"A", "-", "V", "E", "G">>
      [] layer = "" -> <<>>
      [] layer = "RANDOM_LAYER" -> <<"R", "A", "N", "D", "O", "M", "_", "L", "A", "Y", "E", "R">>
      [] layer = "I-Mueble" -> <<"I", "-", "M", "u", "e", "b", "l", "e">>

LowerLetters == <<"a", "b", "c", "d", "e", "f", "g", "h", "i", "j", "k", "l", "m", "n", "o", "p", "q", "r", "s", "t", "u", "v", "w", "x", "y", "z">>

UpperLetters == <<"A", "B", "C", "D", "E", "F", "G", "H", "I", "J", "K", "L", "M", "N", "O", "P", "Q", "R", "S", "T", "U", "V", "W", "X", "Y", "Z">>

\* str.upper() on one letter
UpperChar(c) ==
    IF \E k \in DOMAIN LowerLetters : LowerLetters[k] = c
    THEN UpperLetters[CHOOSE k \in DOMAIN LowerLetters : LowerLetters[k] = c]
    ELSE c

\* layer_name.upper()
UpperName(name) == [k \in DOMAIN name |-> UpperChar(name[k])]

should_keep_layer(layer) ==
    IF LayerName(layer) = <<>> THEN TRUE
    ELSE ~\E k \in DOMAIN BLACKLIST_KEYWORDS :
             IsInfix(BLACKLIST_KEYWORDS[k], UpperName(LayerName(layer)))

\* A faulty variant: nothing is filtered.
filter_nothing(segs, force_full_scan) == segs

filter_segments(segs, force_full_scan) ==
    IF force_full_scan THEN segs
    ELSE SelectSeq(segs, LAMBDA seg : should_keep_layer(seg.layer))

MockSegment(layer) == [layer |-> layer]

InitFilter ==
    /\ AssocIdle /\ shapely = "v2"
    /\ ConfIdle
    /\ GapIdle
    /\ ExtractIdle
    /\ ClassifyIdle
    /\ ServeIdle
    /\ WorkerIdle
    /\ WalkIdle
    /\ CloseIdle
    /\ MatchIdle
    /\ CleanIdle
    /\ UnitIdle
    /\ ExplodeIdle
    /\ TaskIdle
    /\ filter_call \in
           [segments : UNION {[1..n -> {MockSegment(l) : l \in FilterLayers}] : n \in 0..MaxFiltered},
            force_full_scan : BOOLEAN]
    /\ filter_result = NotFiltered

\* kept = filter_segments(segments, force_full_scan)
FilterSegments ==
    /\ filter_call # <<>>
    /\ ~filter_result.done
    /\ \E kept \in {filter_segments(filter_call.segments, filter_call.force_full_scan)} :
           filter_result' = [done |-> TRUE, kept |-> kept]
    /\ UNCHANGED <<assoc_vars, conf_vars, gap_vars, extract_vars, classify_vars, serve_vars, worker_vars, walk_vars, close_vars, match_vars, clean_vars, unit_vars, explode_vars,
                   task_vars, filter_call>>

NextFilter == FilterSegments

SpecFilter == InitFilter /\ [][NextFilter]_vars

\* two letters are the same up to case
SameLetter(a, b) == UpperChar(a) = UpperChar(b)

\* the name holds the keyword as a substring, case-insensitively
HoldsKeyword(name, kw) ==
    \E k \in 0..(Len(name) - Len(kw)) : \A j \in 1..Len(kw) : SameLetter(name[k + j], kw[j])

Blacklisted(layer) ==
    \E k \in DOMAIN BLACKLIST_KEYWORDS : HoldsKeyword(LayerName(layer), BLACKLIST_KEYWORDS[k])

\* the positions of the input that are to be kept, in increasing order
RECURSIVE KeptFrom(_, _)
KeptFrom(segs, k) ==
    IF k > Len(segs) THEN <<>>
    ELSE (IF Blacklisted(segs[k].layer) THEN <<>> ELSE <<segs[k]>>)
         \o KeptFrom(segs, k + 1)

\* C19: filter_segments returns, in input order, exactly the segments whose
\* layer name holds no blacklist keyword (case-insensitive substring); an
\* unknown or empty layer name is kept, and with force_full_scan the input
\* comes back unchanged.
C19_FilterSegments ==
    filter_result.done =>
        IF filter_call.force_full_scan
        THEN filter_result.kept = filter_call.segments
        ELSE filter_result.kept = KeptFrom(filter_call.segments, 1)

C19_Witness ==
    /\ filter_result.done
    /\ ~filter_call.force_full_scan
    /\ Len(filter_call.segments) = 3
    /\ filter_call.segments[1].layer = "a-furn"
    /\ filter_call.segments[2].layer = ""
    /\ filter_call.segments[3].layer = "RANDOM_LAYER"
    /\ filter_result.kept = <<MockSegment(""), MockSegment("RANDOM_LAYER")>>

----------------------------------------------------------------------------
(* core/semantic_matcher.py: SemanticMatcher.match called on its own.      *)
(* Scores and thresholds are in 1/10000.                                   *)

MaxCandidates == 2

MatchThresholds == {0, 5000, 9500, 9900, 10000}

InitMatch ==
    /\ AssocIdle /\ shapely = "v2"
    /\ ConfIdle
    /\ GapIdle
    /\ ExtractIdle
    /\ ClassifyIdle
    /\ ServeIdle
    /\ WorkerIdle
    /\ WalkIdle
    /\ CloseIdle
    /\ CleanIdle
    /\ UnitIdle
    /\ ExplodeIdle
    /\ TaskIdle
    /\ FilterIdle
    /\ match_call \in
           [target : Descriptions,
            candidates : UNION {[1..n -> Texts] : n \in 0..MaxCandidates},
            threshold : MatchThresholds]
    /\ match_result = NotMatched

\* results = matcher.match(target, candidates, threshold)
Match ==
    /\ match_call # <<>>
    /\ ~match_result.done
    /\ \E results \in {match(match_call.target, match_call.candidates, match_call.threshold)} :
           match_result' = [done |-> TRUE, results |-> results]
    /\ UNCHANGED <<assoc_vars, conf_vars, gap_vars, extract_vars, classify_vars, serve_vars, worker_vars, walk_vars, close_vars, clean_vars, unit_vars, explode_vars,
                   task_vars, filter_vars, match_call>>

NextMatch == Match

SpecMatch == InitMatch /\ [][NextMatch]_vars

\* the score of a candidate: 1.0 for an exact match, 0.95 for a synonym
\* hit, otherwise the sequence-similarity ratio
CandidateScore(target, cand) ==
    IF normalize(target) = normalize(cand) THEN 10000
    ELSE IF \E k \in DOMAIN get_synonyms(normalize(target)) :
                get_synonyms(normalize(target))[k] \in TextInfo(cand).subs
    THEN 9500
    ELSE SequenceRatio(normalize(target), normalize(cand))

Occurrences(seq, x) == Cardinality({k \in DOMAIN seq : seq[k] = x})

\* C20: match returns exactly the candidates whose score is >= threshold,
\* each occurrence once, in non-increasing score order, for every
\* threshold in [0, 1].
C20_MatchThreshold ==
    match_result.done =>
        /\ \A t \in Texts :
               Occurrences([k \in DOMAIN match_result.results |-> match_result.results[k].text], t)
                 = IF CandidateScore(match_call.target, t) >= match_call.threshold
                   THEN Occurrences(match_call.candidates, t)
                   ELSE 0
        /\ \A k \in DOMAIN match_result.results :
               match_result.results[k].score
                 = CandidateScore(match_call.target, match_result.results[k].text)
        /\ \A j, k \in DOMAIN match_result.results :
               j < k => match_result.results[j].score >= match_result.results[k].score

----------------------------------------------------------------------------
(* The spatial score of the nearest_neighbor strategy, read back from the  *)
(* matches of associate_text_to_regions.                                   *)

\* the text score find_matching_labels gave the label of a match
TextScoreOf(m) ==
    With(find_matching_labels(m.excel_item, labels, text_match_threshold), LAMBDA ml :
         ml[CHOOSE j \in DOMAIN ml : ml[j].label = m.label].score)

\* the spatial score that went into the combined score of a match, in 1/10000
SpatialScoreOf(m) ==
    (m.confidence - CombinedScore(m.excel_item, m.region, TextScoreOf(m), 0)) \div 4

\* s is max(0.5, 1 - d/R) up to 1/10000, for the squared distance d2 (dm2)
LinearInDistance(s, d2) ==
    IF 4 * d2 >= Sq(SpatialSearchRadius) THEN s = 5000
    ELSE /\ Sq(10000 - s - 1) * Sq(SpatialSearchRadius) <= d2 * 100000000
         /\ d2 * 100000000 <= Sq(10000 - s + 1) * Sq(SpatialSearchRadius)

\* C24: a label resolved by nearest_neighbor at distance d <= R has the
\* spatial score max(0.5, 1 - d/R); at d > 0 it scores below an
\* inside_zone hit (1.0).
C24_NearestScore ==
    \A n \in DOMAIN matches :
        matches[n].strategy = "nearest_neighbor" =>
            With(Dist2(matches[n].region.rect, labels[matches[n].label].x,
                       labels[matches[n].label].y), LAMBDA d2 :
                 /\ LinearInDistance(SpatialScoreOf(matches[n]), d2)
                 /\ d2 > 0 => SpatialScoreOf(matches[n]) < 10000)

----------------------------------------------------------------------------
(* The Auto-Height of match_reason, item by item.                          *)

\* the linear-to-area height detection ran for the item of a match
HeightDetectionRan(m) ==
    /\ m.excel_item.unit # ""
    /\ LowerUnit(m.excel_item.unit) \in AreaUnits
    /\ m.region.area < 100
    /\ m.region.perimeter > 0

\* C29: the Auto-Height written for an item depends on that item's own
\* processing only: an item for which the height detection did not run
\* reports "Default", whatever was detected for the items before it.
C29_AutoHeightLocal ==
    \A n \in DOMAIN matches :
        (matches[n].region.some /\ ~HeightDetectionRan(matches[n])) =>
            matches[n].auto_height = Default

----------------------------------------------------------------------------
(* force_close_polygons and close_small_gaps on drawings with corners,     *)
(* near misses and short segments.  1 m = 400 units, as for SpecGap.       *)

\* tolerance of force_close_polygons and max_gap of close_small_gaps: 0.05
DefaultTolerance == 20

CloseCatalogue ==
    << Segment(<<0, 0>>, <<400, 0>>, "0", "LINE"),
       Segment(<<400, 0>>, <<400, 400>>, "0", "LINE"),
       Segment(<<412, 0>>, <<800, 0>>, "0", "LINE"),
       Segment(<<400, 412>>, <<400, 800>>, "0", "LINE"),
       Segment(<<0, 0>>, <<0, 400>>, "0", "LINE"),
       Segment(<<430, 0>>, <<800, 0>>, "a-arq-tabiques", "LINE"),
       Segment(<<0, 0>>, <<12, 0>>, "0", "LINE") >>

InitClose ==
    /\ AssocIdle /\ shapely \in {"v1", "v2"}
    /\ ConfIdle
    /\ GapIdle
    /\ ExtractIdle
    /\ ClassifyIdle
    /\ ServeIdle
    /\ WorkerIdle
    /\ WalkIdle
    /\ CleanIdle
    /\ UnitIdle
    /\ ExplodeIdle
    /\ TaskIdle
    /\ FilterIdle
    /\ MatchIdle
    /\ close_segments \in Lists(CloseCatalogue, MaxSegments)
    /\ forced = NotClosed
    /\ gap_closed = NotClosed

\* segments = force_close_polygons(segments)
ForceClosePolygons ==
    /\ ~forced.done
    /\ \E r \in {force_close_polygons(close_segments, DefaultTolerance)} :
           forced' = [done |-> TRUE, exc |-> "none", segments |-> r]
    /\ UNCHANGED <<assoc_vars, conf_vars, gap_vars, extract_vars, classify_vars, serve_vars, worker_vars, walk_vars, clean_vars, unit_vars, explode_vars,
                   task_vars, filter_vars, match_vars, close_segments, gap_closed>>

\* segments = close_small_gaps(segments)
CloseSmallGaps ==
    /\ ~gap_closed.done
    /\ \E first \in {"low", "high"} :
       \E r \in {close_small_gaps(close_segments, DefaultTolerance, shapely, first)} :
           gap_closed' = [done |-> TRUE, exc |-> r.exc, segments |-> r.segments]
    /\ UNCHANGED <<assoc_vars, conf_vars, gap_vars, extract_vars, classify_vars, serve_vars, worker_vars, walk_vars, clean_vars, unit_vars, explode_vars,
                   task_vars, filter_vars, match_vars, close_segments, forced>>

NextClose == ForceClosePolygons \/ CloseSmallGaps

SpecClose == InitClose /\ [][NextClose]_vars

\* the number of segment ends at point p
Degree(segs, p) ==
    Cardinality({k \in DOMAIN segs : segs[k].start = p})
    + Cardinality({k \in DOMAIN segs : segs[k].end = p})

\* tol(p): the largest tolerance of the segments that end at p
PointTolerance(segs, p) ==
    SetMax({Max(DefaultTolerance, FORCE_CLOSE_LAYERS(segs[k].layer)) :
               k \in {i \in DOMAIN segs : p \in {segs[i].start, segs[i].end}}})

\* a bridge between two distinct dangling endpoints no segment joins, no
\* longer than tol
ProperBridge(segs, b, tol) ==
    /\ b.start # b.end
    /\ Degree(segs, b.start) = 1
    /\ Degree(segs, b.end) = 1
    /\ PointDist2(b.start, b.end) <= Sq(tol)
    /\ ~\E k \in DOMAIN segs : {segs[k].start, segs[k].end} = {b.start, b.end}

\* C25: gap closing adds a bridge only between two distinct dangling
\* endpoints within the effective tolerance max(tol(p1), tol(p2)); never at
\* an endpoint of degree >= 2, never between endpoints a segment joins.
C25_BridgesDangling ==
    /\ forced.done =>
           \A k \in DOMAIN forced.segments :
               forced.segments[k].entity_type = "BRIDGE" =>
                   ProperBridge(close_segments, forced.segments[k],
                                Max(PointTolerance(close_segments, forced.segments[k].start),
                                    PointTolerance(close_segments, forced.segments[k].end)))
    /\ (gap_closed.done /\ gap_closed.exc = "none") =>
           \A k \in DOMAIN gap_closed.segments :
               gap_closed.segments[k].entity_type = "GAP_CLOSE" =>
                   ProperBridge(close_segments, gap_closed.segments[k], DefaultTolerance)

----------------------------------------------------------------------------
(* snap_vertices against the clusters of the endpoints: two endpoints are  *)
(* in one cluster when a chain of endpoints, each within the tolerance of  *)
(* the next, leads from one to the other.                                  *)

\* the indices of the points that chains of near points reach from S
RECURSIVE Reach(_, _, _)
Reach(pts, tolerance, S) ==
    With(S \cup {j \in DOMAIN pts : \E i \in S : PointDist2(pts[i], pts[j]) <= Sq(tolerance)},
         LAMBDA T : IF T = S THEN S ELSE Reach(pts, tolerance, T))

ClusterOf(pts, tolerance, i) == Reach(pts, tolerance, {i})

RECURSIVE SumCoord(_, _, _)
SumCoord(pts, js, c) ==
    IF js = {} THEN 0
    ELSE With(CHOOSE j \in js : TRUE, LAMBDA j : pts[j][c] + SumCoord(pts, js \ {j}, c))

\* p is the centroid of the points of a cluster, to within one unit
IsCentroid(p, pts, cluster) ==
    \A c \in {1, 2} :
        Abs(p[c] * Cardinality(cluster) - SumCoord(pts, cluster, c)) < Cardinality(cluster)

\* the segments whose two endpoints are in different clusters, in order
KeptSegments(segs, tolerance) ==
    SelectSeq([k \in DOMAIN segs |-> k],
              LAMBDA k : ClusterOf(AllPoints(segs), tolerance, 2 * k - 1)
                           # ClusterOf(AllPoints(segs), tolerance, 2 * k))

\* C26: after snap_vertices the endpoints of a cluster have the same
\* coordinates, the centroid of the original coordinates of exactly the
\* endpoints of the cluster, and a segment is dropped exactly when both
\* its endpoints are in one cluster.
C26_SnapClusters ==
    clstage \in {"snapped", "resnapped"} =>
        With(KeptSegments(raw_segments, CleanTolerance), LAMBDA kept :
            /\ Len(snapped) = Len(kept)
            /\ \A j \in DOMAIN kept :
                   j \in DOMAIN snapped =>
                       /\ IsCentroid(snapped[j].start, AllPoints(raw_segments),
                                     ClusterOf(AllPoints(raw_segments), CleanTolerance, 2 * kept[j] - 1))
                       /\ IsCentroid(snapped[j].end, AllPoints(raw_segments),
                                     ClusterOf(AllPoints(raw_segments), CleanTolerance, 2 * kept[j])))

----------------------------------------------------------------------------
(* core/dxf_parser.py: explode_block over a block table, one step of the   *)
(* interpreter at a time.  A block is the sequence of its entities, a LINE *)
(* or the INSERT of a block name; a frame of call_stack is one call of     *)
(* explode_block: the block it iterates, the position of its loop and its  *)
(* depth argument.                                                         *)

Line == [kind |-> "LINE", name |-> "-"]

Insert(name) == [kind |-> "INSERT", name |-> name]

\* the block tables of the model: a block inserting itself, a cycle of two
\* blocks, a block inserting itself twice, a tree without a cycle, and an
\* insert of a block the table does not hold
BlockTables ==
    { [A |-> <<Line, Insert("A")>>],
      [A |-> <<Insert("B")>>, B |-> <<Line, Insert("A")>>],
      [A |-> <<Insert("A"), Line, Insert("A")>>],
      [A |-> <<Line, Insert("B"), Insert("B")>>, B |-> <<Line>>],
      [A |-> <<Line, Insert("C")>>] }

\* the values of max_depth the callers of the model pass: small ones and
\* the default
MaxDepths == {0, 1, 2, MaxDepth}

\* the guard is off by one: a call one level too deep still explodes
depth_exceeded_late(depth, limit) == depth > limit + 1

\* "if depth > max_depth: ... return segments, texts"
depth_exceeded(depth, limit) == depth > limit

\* the call explode_block(entity, doc, depth, max_depth) seen from its
\* caller's stack: a call that returns at once (depth guard, or "if not
\* block") leaves the stack as it is, another one opens a frame
Call(stack, name, depth) ==
    IF depth_exceeded(depth, walk_max_depth) \/ name \notin DOMAIN block_table
    THEN stack
    ELSE Append(stack, [block |-> name, pos |-> 1, depth |-> depth])

Top == call_stack[Len(call_stack)]

Advanced == [call_stack EXCEPT ![Len(call_stack)].pos = @ + 1]

InitWalk ==
    /\ AssocIdle /\ shapely = "v2"
    /\ ConfIdle
    /\ GapIdle
    /\ ExtractIdle
    /\ ClassifyIdle
    /\ ServeIdle
    /\ WorkerIdle
    /\ CleanIdle
    /\ UnitIdle
    /\ ExplodeIdle
    /\ TaskIdle
    /\ FilterIdle
    /\ MatchIdle
    /\ CloseIdle
    /\ block_table \in BlockTables
    /\ walk_max_depth \in MaxDepths
    /\ call_stack = <<>>
    /\ walk_segments = <<>>
    /\ wstage = "input"

\* the top-level call explode_block(insert, doc) of parse_dxf_file, for an
\* insert of block A
ExplodeCall ==
    /\ wstage = "input"
    /\ call_stack' = Call(<<>>, "A", 0)
    /\ wstage' = IF call_stack' = <<>> THEN "returned" ELSE "running"
    /\ UNCHANGED <<assoc_vars, conf_vars, gap_vars, extract_vars, classify_vars, serve_vars, worker_vars, clean_vars, unit_vars, explode_vars,
                   task_vars, filter_vars, match_vars, close_vars,
                   block_table, walk_max_depth, walk_segments>>

\* "elif isinstance(entity, (Line, ...)): ... segments.extend(entity_segs)"
VisitPrimitive ==
    /\ wstage = "running"
    /\ Top.pos <= Len(block_table[Top.block])
    /\ block_table[Top.block][Top.pos].kind = "LINE"
    /\ walk_segments' = Append(walk_segments, Top.depth)
    /\ call_stack' = Advanced
    /\ UNCHANGED <<assoc_vars, conf_vars, gap_vars, extract_vars, classify_vars, serve_vars, worker_vars, clean_vars, unit_vars, explode_vars,
                   task_vars, filter_vars, match_vars, close_vars,
                   block_table, walk_max_depth, wstage>>

\* "if isinstance(entity, Insert): ... explode_block(entity, doc, depth + 1,
\* max_depth)"
VisitInsert ==
    /\ wstage = "running"
    /\ Top.pos <= Len(block_table[Top.block])
    /\ block_table[Top.block][Top.pos].kind = "INSERT"
    /\ call_stack' = Call(Advanced, block_table[Top.block][Top.pos].name, Top.depth + 1)
    /\ UNCHANGED <<assoc_vars, conf_vars, gap_vars, extract_vars, classify_vars, serve_vars, worker_vars, clean_vars, unit_vars, explode_vars,
                   task_vars, filter_vars, match_vars, close_vars,
                   block_table, walk_max_depth, walk_segments, wstage>>

\* the end of "for entity in block": "return segments, texts"
ReturnFromBlock ==
    /\ wstage = "running"
    /\ Top.pos > Len(block_table[Top.block])
    /\ call_stack' = SubSeq(call_stack, 1, Len(call_stack) - 1)
    /\ wstage' = IF call_stack' = <<>> THEN "returned" ELSE "running"
    /\ UNCHANGED <<assoc_vars, conf_vars, gap_vars, extract_vars, classify_vars, serve_vars, worker_vars, clean_vars, unit_vars, explode_vars,
                   task_vars, filter_vars, match_vars, close_vars,
                   block_table, walk_max_depth, walk_segments>>

NextWalk == ExplodeCall \/ VisitPrimitive \/ VisitInsert \/ ReturnFromBlock

SpecWalk == InitWalk /\ [][NextWalk]_vars

\* the interpreter runs a call to its end: a step that can be taken is taken
SpecWalkFair == SpecWalk /\ WF_vars(NextWalk)

\* C30: explode_block returns for every block table, those whose blocks
\* insert themselves directly or through a cycle included, and no segment
\* it collects comes from a call deeper than max_depth below the top-level
\* insert.
C30_ExplodeTerminates ==
    /\ <>(wstage = "returned")
    /\ [](\A i \in DOMAIN walk_segments : walk_segments[i] <= walk_max_depth)

\* a block inserting itself, exploded to the default depth: one segment of
\* every level 0..10
C30_Witness ==
    /\ wstage = "returned"
    /\ walk_max_depth = MaxDepth
    /\ block_table = [A |-> <<Line, Insert("A")>>]
    /\ walk_segments = [i \in 1..(MaxDepth + 1) |-> i - 1]

----------------------------------------------------------------------------
(* core/processing_task.py: process_dxf_task run more than once on one     *)
(* file.  A file is readable by ezdxf or not; a readable one holds the     *)
(* entities of its modelspace.  What differs from one run to the next is   *)
(* the environment of the process: the iteration order of the set of layer *)
(* names and the values uuid4 draws.                                       *)

MaxRuns == 2

MaxFileEntities == 2

Uuids == {"1a2b3c4d", "5e6f7a8b"}

NotDxf == [dxf |-> FALSE, entities |-> <<>>]

DxfFile(entities) == [dxf |-> TRUE, entities |-> entities]

Files ==
    {NotDxf} \cup {DxfFile(es) : es \in UNION {[1..n -> EntityCatalogue] : n \in 0..MaxFileEntities}}

\* "layers.add(entity.dxf.layer ...)"
LayerSet(entities) == {entities[i].layer : i \in DOMAIN entities}

\* list(layers): the elements of the set in some order
ListsOfSet(S) ==
    {f \in [1..Cardinality(S) -> S] : \A i, j \in DOMAIN f : f[i] = f[j] => i = j}

\* parse_dxf_file: "except Exception as e: raise ValueError(...)" when
\* ezdxf.readfile fails, the ParseResult otherwise
parse_dxf_file(file, layer_list) ==
    IF ~file.dxf
    THEN [raised |-> TRUE, error |-> "ValueError", returned |-> FALSE,
          segments |-> <<>>, layers |-> <<>>, precomputed_regions |-> <<>>]
    ELSE [raised |-> FALSE, error |-> "none", returned |-> TRUE,
          segments |-> AllSegments(file.entities), layers |-> layer_list,
          precomputed_regions |-> HatchRegions(file.entities)]

\* 'id': f"hatch_{uuid.uuid4().hex[:8]}"
HatchIds(hatches, ids) ==
    [k \in DOMAIN hatches |-> [hatches[k] EXCEPT !.id = <<"hatch", ids[k]>>]]

\* the error of the parser is answered by an empty response
process_dxf_task_fallback(file, buffered, layer_list, ids) ==
    With(parse_dxf_file(file, layer_list), LAMBDA result :
         [raised |-> FALSE, error |-> "none", returned |-> TRUE,
          segments |-> ApplyLimit(Whitelisted(result.segments)),
          regions |-> MultiResRegions(ApplyLimit(Whitelisted(result.segments)), buffered)
                          \o HatchIds(result.precomputed_regions, ids),
          layers |-> result.layers,
          log |-> <<"Worker started">>])

\* process_dxf_task: the response, or the exception its "except Exception
\* as e: ... raise e" passes on after writing the logs
process_dxf_task(file, buffered, layer_list, ids) ==
    With(parse_dxf_file(file, layer_list), LAMBDA result :
         IF result.raised
         THEN [raised |-> TRUE, error |-> result.error, returned |-> FALSE,
               segments |-> <<>>, regions |-> <<>>, layers |-> <<>>,
               log |-> <<"Worker started", "FAILED">>]
         ELSE [raised |-> FALSE, error |-> "none", returned |-> TRUE,
               segments |-> ApplyLimit(Whitelisted(result.segments)),
               regions |-> MultiResRegions(ApplyLimit(Whitelisted(result.segments)), buffered)
                               \o HatchIds(result.precomputed_regions, ids),
               layers |-> result.layers,
               log |-> <<"Worker started", "Parse result">>])

InitWorker ==
    /\ AssocIdle /\ shapely = "v2"
    /\ ConfIdle
    /\ GapIdle
    /\ ExtractIdle
    /\ ClassifyIdle
    /\ ServeIdle
    /\ CleanIdle
    /\ UnitIdle
    /\ ExplodeIdle
    /\ TaskIdle
    /\ FilterIdle
    /\ MatchIdle
    /\ CloseIdle
    /\ WalkIdle
    /\ worker_file \in Files
    /\ worker_buffer \in BufferOutcomes
    /\ worker_runs = <<>>

\* one run of process_dxf_task(file_path) in a worker process
ProcessDxfTask ==
    /\ Len(worker_runs) < MaxRuns
    /\ \E layer_list \in ListsOfSet(LayerSet(worker_file.entities)) :
       \E ids \in [1..MaxFileEntities -> Uuids] :
          worker_runs' = Append(worker_runs,
                                process_dxf_task(worker_file, worker_buffer, layer_list, ids))
    /\ UNCHANGED <<assoc_vars, conf_vars, gap_vars, extract_vars, classify_vars, serve_vars, clean_vars, unit_vars, explode_vars,
                   task_vars, filter_vars, match_vars, close_vars, walk_vars,
                   worker_file, worker_buffer>>

NextWorker == ProcessDxfTask

SpecWorker == InitWorker /\ [][NextWorker]_vars

\* C21: a file ezdxf cannot read makes parse_dxf_file raise without a
\* ParseResult, and process_dxf_task passes the error on to its caller
\* instead of returning a response.
C21_ParseErrorAborts ==
    ~worker_file.dxf
        => /\ \A layer_list \in ListsOfSet(LayerSet(worker_file.entities)) :
                 /\ parse_dxf_file(worker_file, layer_list).raised
                 /\ ~parse_dxf_file(worker_file, layer_list).returned
           /\ \A i \in DOMAIN worker_runs :
                 /\ worker_runs[i].raised
                 /\ worker_runs[i].error = "ValueError"
                 /\ ~worker_runs[i].returned

C21_Witness ==
    /\ ~worker_file.dxf
    /\ Len(worker_runs) > 0
    /\ worker_runs[1].raised
    /\ worker_runs[1].log = <<"Worker started", "FAILED">>

\* C23: two runs on the same file with the same options return the same
\* output: the same regions with the same ids in the same order, the same
\* layers in the same order.
C23_Deterministic ==
    Len(worker_runs) = MaxRuns => worker_runs[1] = worker_runs[2]

----------------------------------------------------------------------------
(* api/routes.py: the handler of POST /parse-dxf, for requests in flight   *)
(* at the same time.  Each handler writes its upload to a temporary file   *)
(* of its own, parses that file and removes it.                            *)

MaxRequests == 3

Requests == 1..MaxRequests

\* the names tempfile can give: one not in use is chosen
TmpNames == 1..MaxRequests

UploadCatalogue ==
    { NotDxf,
      DxfFile(<<Entity("LWPOLYLINE", <<(<<20, 0>>), (<<30, 0>>), (<<30, 10>>)>>, TRUE, "Wall")>>),
      DxfFile(<<Entity("LINE", <<(<<0, 0>>), (<<10, 0>>)>>, FALSE, "A-MURO"),
                Entity("LINE", <<(<<0, 20>>), (<<10, 20>>)>>, FALSE, "COTAS")>>) }

NoFile == [exists |-> FALSE, file |-> NotDxf]

NoResponse ==
    [sent |-> FALSE, status |-> 0, segments |-> <<>>, texts |-> <<>>, layers |-> <<>>,
     regions |-> <<>>, bounds |-> <<0, 0, 0, 0>>]

\* ParseDxfResponse(...), answered with HTTP 200
ParseDxfResponse(segs, texts, layers, bounds, regs) ==
    [sent |-> TRUE, status |-> 200, segments |-> segs, texts |-> texts, layers |-> layers,
     regions |-> regs, bounds |-> bounds]

\* ClnSegment(start=ClnPoint(s.start.x, s.start.y), ...): the segment in
\* the units of the cleanup, 400 to the metre for the parser's 100
ClnSegment(s) ==
    Segment(<<4 * s.start[1], 4 * s.start[2]>>, <<4 * s.end[1], 4 * s.end[2]>>,
            s.layer, s.entity_type)

\* result.bounds: "if min_x == float('inf'): min_x, min_y, max_x, max_y =
\* 0, 0, 100, 100"
BoundsOf(segs) ==
    IF segs = <<>> THEN <<0, 0, 10000, 10000>>
    ELSE With({segs[i].start[1] : i \in DOMAIN segs} \cup {segs[i].end[1] : i \in DOMAIN segs},
              LAMBDA xs :
         With({segs[i].start[2] : i \in DOMAIN segs} \cup {segs[i].end[2] : i \in DOMAIN segs},
              LAMBDA ys :
              <<-SetMax({-x : x \in xs}), -SetMax({-y : y \in ys}), SetMax(xs), SetMax(ys)>>))

\* the parser's error becomes an error of the request
parse_dxf_error(entry, api, first, layer_list) ==
    [sent |-> TRUE, status |-> 500, segments |-> <<>>, texts |-> <<>>, layers |-> <<>>,
     regions |-> <<>>, bounds |-> <<0, 0, 0, 0>>]

\* the try block of parse_dxf and its "except Exception": the response of
\* the handler for the file found at tmp_path
parse_dxf(entry, api, first, layer_list) ==
    With(parse_dxf_file(IF entry.exists THEN entry.file ELSE NotDxf, layer_list), LAMBDA result :
         IF result.raised
         \* 'result' not in locals(): "Return empty response if all else fails"
         THEN ParseDxfResponse(<<>>, <<>>, <<>>, <<0, 0, 0, 0>>, <<>>)
         ELSE With(cleanup_geometry([i \in DOMAIN result.segments |-> ClnSegment(result.segments[i])],
                                    SnapTolerance, TRUE, TRUE, SetMax(MaxGaps), api, first),
                   LAMBDA cln :
                   ParseDxfResponse(result.segments, <<>>, result.layers,
                                    BoundsOf(result.segments),
                                    \* the partial result when the extraction failed
                                    IF cln.exc # "none" THEN <<>>
                                    ELSE extract_regions(cln.segments))))

InitServe ==
    /\ AssocIdle /\ shapely \in {"v1", "v2"}
    /\ ConfIdle
    /\ GapIdle
    /\ ExtractIdle
    /\ ClassifyIdle
    /\ CleanIdle
    /\ UnitIdle
    /\ ExplodeIdle
    /\ TaskIdle
    /\ FilterIdle
    /\ MatchIdle
    /\ CloseIdle
    /\ WalkIdle
    /\ WorkerIdle
    /\ uploads \in [Requests -> UploadCatalogue]
    /\ tmp_dir = [p \in TmpNames |-> NoFile]
    /\ handlers = [r \in Requests |-> [pc |-> "start", tmp_path |-> 0, response |-> NoResponse]]
    /\ responses = [r \in Requests |-> NoResponse]

\* "with tempfile.NamedTemporaryFile(delete=False, suffix=".dxf") as tmp:
\* content = await file.read()"
OpenTemp(r) ==
    /\ handlers[r].pc = "start"
    /\ \E p \in TmpNames :
          /\ ~tmp_dir[p].exists
          /\ tmp_dir' = [tmp_dir EXCEPT ![p] = [exists |-> TRUE, file |-> NotDxf]]
          /\ handlers' = [handlers EXCEPT ![r].pc = "opened", ![r].tmp_path = p]
    /\ UNCHANGED <<assoc_vars, conf_vars, gap_vars, extract_vars, classify_vars, clean_vars, unit_vars, explode_vars,
                   task_vars, filter_vars, match_vars, close_vars, walk_vars, worker_vars,
                   uploads, responses>>

\* "tmp.write(content); tmp_path = tmp.name"
WriteTemp(r) ==
    /\ handlers[r].pc = "opened"
    /\ tmp_dir' = [tmp_dir EXCEPT ![handlers[r].tmp_path].file = uploads[r]]
    /\ handlers' = [handlers EXCEPT ![r].pc = "written"]
    /\ UNCHANGED <<assoc_vars, conf_vars, gap_vars, extract_vars, classify_vars, clean_vars, unit_vars, explode_vars,
                   task_vars, filter_vars, match_vars, close_vars, walk_vars, worker_vars,
                   uploads, responses>>

\* the try block: parse_dxf_file(tmp_path) and what follows it
ParseDxf(r) ==
    /\ handlers[r].pc = "written"
    /\ \E first \in {"low", "high"} :
       \E layer_list \in ListsOfSet(LayerSet(tmp_dir[handlers[r].tmp_path].file.entities)) :
          handlers' = [handlers EXCEPT ![r].pc = "parsed",
                                       ![r].response = parse_dxf(tmp_dir[handlers[r].tmp_path],
                                                                 shapely, first, layer_list)]
    /\ UNCHANGED <<assoc_vars, conf_vars, gap_vars, extract_vars, classify_vars, clean_vars, unit_vars, explode_vars,
                   task_vars, filter_vars, match_vars, close_vars, walk_vars, worker_vars,
                   uploads, tmp_dir, responses>>

\* "finally: os.unlink(tmp_path)", and the response goes out
Unlink(r) ==
    /\ handlers[r].pc = "parsed"
    /\ tmp_dir' = [tmp_dir EXCEPT ![handlers[r].tmp_path] = NoFile]
    /\ responses' = [responses EXCEPT ![r] = handlers[r].response]
    /\ handlers' = [handlers EXCEPT ![r].pc = "done"]
    /\ UNCHANGED <<assoc_vars, conf_vars, gap_vars, extract_vars, classify_vars, clean_vars, unit_vars, explode_vars,
                   task_vars, filter_vars, match_vars, close_vars, walk_vars, worker_vars,
                   uploads>>

NextServe == \E r \in Requests : OpenTemp(r) \/ WriteTemp(r) \/ ParseDxf(r) \/ Unlink(r)

SpecServe == InitServe /\ [][NextServe]_vars

\* C22: a request whose upload is no parseable DXF is answered with status
\* 200 and empty segments, texts, layers and regions, whatever the other
\* requests in flight do.
C22_InvalidUploadEmpty ==
    \A r \in Requests :
        (responses[r].sent /\ ~uploads[r].dxf)
            => /\ responses[r].status = 200
               /\ responses[r].segments = <<>>
               /\ responses[r].texts = <<>>
               /\ responses[r].layers = <<>>
               /\ responses[r].regions = <<>>

\* three unparseable uploads in flight together: one answered, one parsed,
\* one with its temporary file written
C22_Witness ==
    /\ \A r \in Requests : ~uploads[r].dxf
    /\ \E a, b, c \in Requests :
          /\ responses[a].sent /\ responses[a].status = 200
          /\ handlers[b].pc = "parsed"
          /\ handlers[c].pc = "written"

----------------------------------------------------------------------------
(* core/semantic_classifier.py: the layer-name signal of classify_region.  *)
(* Strings are sequences of characters, scores are in 1/100.               *)

FLOOR ==
    [name |-> "FLOOR",
     layer_prefixes |-> << <<"F", "A", "_", "0">>,
                        <<"F", "L", "O", "O", "R">>,
                        <<"P", "I", "S", "O">>,
                        <<"L", "O", "S", "A">> >>,
     layer_contains |-> << <<"p", "a", "v", "i", "m", "e", "n", "t", "o">>,
                        <<"p", "i", "s", "o">>,
                        <<"l", "o", "s", "a">> >>]

WALL ==
    [name |-> "WALL",
     layer_prefixes |-> << <<"F", "A", "_", "M", "U", "R", "O">>,
                        <<"W", "A", "L", "L">>,
                        <<"M", "U", "R", "O">>,
                        <<"T", "A", "B">> >>,
     layer_contains |-> << <<"m", "u", "r", "o">>,
                        <<"t", "a", "b", "i", "q", "u", "e">>,
                        <<"w", "a", "l", "l">> >>]

CEILING ==
    [name |-> "CEILING",
     layer_prefixes |-> << <<"F", "A", "_", "C", "I", "E", "L", "O">>,
                        <<"C", "E", "I", "L", "I", "N", "G">>,
                        <<"C", "I", "E", "L", "O">> >>,
     layer_contains |-> << <<"c", "i", "e", "l", "o">>,
                        <<"r", "a", "s", "o">>,
                        <<"c", "e", "i", "l", "i", "n", "g">>,
                        <<"v", "o", "l", "c", "a", "n", "i", "t", "a">> >>]

FIXTURE ==
    [name |-> "FIXTURE",
     layer_prefixes |-> << <<"D", "O", "O", "R">>,
                        <<"W", "I", "N", "D", "O", "W">>,
                        <<"F", "U", "R", "N", "I", "T", "U", "R", "E">>,
                        <<"F", "I", "X", "T", "U", "R", "E">> >>,
     layer_contains |-> << <<"p", "u", "e", "r", "t", "a">>,
                        <<"v", "e", "n", "t", "a", "n", "a">>,
                        <<"m", "o", "b", "i", "l", "i", "a", "r", "i", "o">> >>]

ANNOTATION ==
    [name |-> "ANNOTATION",
     layer_prefixes |-> << <<"D", "I", "M">>,
                        <<"T", "E", "X", "T">>,
                        <<"N", "O", "T", "E">>,
                        <<"A", "N", "N", "O">> >>,
     layer_contains |-> << <<"t", "e", "x", "t">>,
                        <<"d", "i", "m">>,
                        <<"c", "o", "t", "a">>,
                        <<"n", "o", "t", "a">>,
                        <<"s", "e", "c", "c", "i", "o", "n">> >>]

\* SemanticCategory.all_categories()
all_categories == <<FLOOR, WALL, CEILING, FIXTURE, ANNOTATION>>

\* str.lower() of one character
LowerChar(c) ==
    IF \E k \in DOMAIN UpperLetters : UpperLetters[k] = c
    THEN LowerLetters[CHOOSE k \in DOMAIN UpperLetters : UpperLetters[k] = c]
    ELSE c

\* str.lower()
Lower(str) == [k \in DOMAIN str |-> LowerChar(str[k])]

\* str.startswith(prefix)
StartsWith(str, prefix) ==
    /\ Len(prefix) <= Len(str)
    /\ \A j \in 1..Len(prefix) : str[j] = prefix[j]

\* GeometryClassifier._score_layer: 35 for the first prefix that matches
\* and, on top of it, 25 for the first keyword the name contains
score_layer(layer_lower, category) ==
    (IF \E k \in DOMAIN category.layer_prefixes :
            StartsWith(layer_lower, Lower(category.layer_prefixes[k]))
     THEN 35 ELSE 0)
    + (IF \E k \in DOMAIN category.layer_contains :
              IsInfix(Lower(category.layer_contains[k]), layer_lower)
       THEN 25 ELSE 0)

\* the pieces layer names are put together from
MaxTokens == 2

LayerTokens ==
    { <<"F", "A", "_", "0">>,
      <<"p", "i", "s", "o">>,
      <<"P", "I", "S", "O">>,
      <<"A", "-">>,
      <<"m", "u", "r", "o">>,
      <<"T", "A", "B">>,
      <<"i", "q", "u", "e">>,
      <<"C", "i", "e", "l", "o">>,
      <<"D", "I", "M">>,
      <<"x">>,
      <<"D", "o", "o", "r">>,
      <<"t", "e", "x", "t">> }

RECURSIVE JoinTokens(_)
JoinTokens(toks) == IF toks = <<>> THEN <<>> ELSE Head(toks) \o JoinTokens(Tail(toks))

LayerNames == {JoinTokens(toks) : toks \in UNION {[1..n -> LayerTokens] : n \in 0..MaxTokens}}

InitClassify ==
    /\ AssocIdle /\ shapely = "v2"
    /\ ConfIdle
    /\ GapIdle
    /\ ExtractIdle
    /\ CleanIdle
    /\ UnitIdle
    /\ ExplodeIdle
    /\ TaskIdle
    /\ FilterIdle
    /\ MatchIdle
    /\ CloseIdle
    /\ WalkIdle
    /\ WorkerIdle
    /\ ServeIdle
    /\ classify_layer \in LayerNames
    /\ layer_details = <<>>

\* the loop of classify_region over the categories: "layer_score =
\* self._score_layer(layer_lower, category)"
ClassifyRegion ==
    /\ layer_details = <<>>
    /\ layer_details' = [k \in DOMAIN all_categories |->
                           [name |-> all_categories[k].name,
                            layer |-> score_layer(Lower(classify_layer), all_categories[k])]]
    /\ UNCHANGED <<assoc_vars, conf_vars, gap_vars, extract_vars, clean_vars, unit_vars, explode_vars,
                   task_vars, filter_vars, match_vars, close_vars, walk_vars, worker_vars,
                   serve_vars, classify_layer>>

NextClassify == ClassifyRegion

SpecClassify == InitClassify /\ [][NextClassify]_vars

\* the lowered layer name starts with one of the category's prefixes
HasPrefix(category) ==
    \E k \in DOMAIN category.layer_prefixes :
        StartsWith(Lower(classify_layer), Lower(category.layer_prefixes[k]))

\* the lowered layer name contains one of the category's keywords
HasKeyword(category) ==
    \E k \in DOMAIN category.layer_contains :
        IsInfix(Lower(category.layer_contains[k]), Lower(classify_layer))

\* C27: the layer signal of a category is 0.35 when the layer name starts
\* with one of its prefixes, 0.25 when it only contains one of its
\* keywords, 0 otherwise, and never more than 0.35.
C27_LayerSignal ==
    \A k \in DOMAIN layer_details :
        /\ layer_details[k].layer =
               (IF HasPrefix(all_categories[k]) THEN 35
                ELSE IF HasKeyword(all_categories[k]) THEN 25 ELSE 0)
        /\ layer_details[k].layer <= 35

----------------------------------------------------------------------------
(* api/routes.py: the handler of POST /extract, step by step, with the     *)
(* temporary files it creates and removes.  An upload is readable by its   *)
(* parser or not and holds a number of segments.                           *)

MaxPdfs == 2

NoUpload == [given |-> FALSE, readable |-> FALSE, segments |-> 0]

Uploaded(readable, n) == [given |-> TRUE, readable |-> readable, segments |-> n]

UploadKinds == {Uploaded(TRUE, 1), Uploaded(TRUE, 0), Uploaded(FALSE, 0)}

ExtractRequests ==
    [dxf_file : {NoUpload} \cup UploadKinds,
     pdf_files : UNION {[1..n -> UploadKinds] : n \in 0..MaxPdfs},
     excel_valid : BOOLEAN,
     use_vision_ai : BOOLEAN]

NoPath == [given |-> FALSE, path |-> 0, suffix |-> "none"]

TmpFile(path, suffix) == [given |-> TRUE, path |-> path, suffix |-> suffix]

\* the position after the DXF part and after each PDF: the next PDF of
\* "for pdf_file in pdf_files", or the check that follows the loop
NextPdf(request, i) == IF i <= Len(request.pdf_files) THEN "pdf_save" ELSE "check"

\* tempfile.NamedTemporaryFile(delete=False, suffix=...): a name not used
\* before
FreshPath == extract_locals.created + 1

InitExtract ==
    /\ AssocIdle /\ shapely = "v2"
    /\ ConfIdle
    /\ GapIdle
    /\ CleanIdle
    /\ UnitIdle
    /\ ExplodeIdle
    /\ TaskIdle
    /\ FilterIdle
    /\ MatchIdle
    /\ CloseIdle
    /\ WalkIdle
    /\ WorkerIdle
    /\ ServeIdle
    /\ ClassifyIdle
    /\ extract_request \in ExtractRequests
    /\ extract_tmp = {}
    /\ extract_locals = [tmp_path |-> NoPath, all_segments |-> 0, pdf_index |-> 1, created |-> 0]
    /\ vision_calls = <<>>
    /\ epc = "start"
    /\ extract_status = 0

\* "excel_items = json.loads(excel_data)", HTTP 400 when it fails
LoadExcel ==
    /\ epc = "start"
    /\ IF ~extract_request.excel_valid
       THEN epc' = "done" /\ extract_status' = 400
       ELSE /\ epc' = IF extract_request.dxf_file.given THEN "dxf_save"
                      ELSE NextPdf(extract_request, 1)
            /\ extract_status' = extract_status
    /\ UNCHANGED <<assoc_vars, conf_vars, gap_vars, clean_vars, unit_vars, explode_vars,
                   task_vars, filter_vars, match_vars, close_vars, walk_vars, worker_vars,
                   serve_vars, classify_vars, extract_request, extract_tmp, extract_locals, vision_calls>>

\* "with tempfile.NamedTemporaryFile(delete=False, suffix=".dxf") as tmp:
\* ... tmp_path = tmp.name"
SaveDxfUpload ==
    /\ epc = "dxf_save"
    /\ extract_tmp' = extract_tmp \cup {TmpFile(FreshPath, ".dxf")}
    /\ extract_locals' = [extract_locals EXCEPT !.tmp_path = TmpFile(FreshPath, ".dxf"),
                                                !.created = FreshPath]
    /\ epc' = "dxf_parse"
    /\ UNCHANGED <<assoc_vars, conf_vars, gap_vars, clean_vars, unit_vars, explode_vars,
                   task_vars, filter_vars, match_vars, close_vars, walk_vars, worker_vars,
                   serve_vars, classify_vars, extract_request, vision_calls, extract_status>>

\* "try: dxf_result = parse_dxf_file(tmp_path) ... finally:
\* os.unlink(tmp_path)"; the parser's error leaves the handler
ParseDxfUpload ==
    /\ epc = "dxf_parse"
    /\ extract_tmp' = extract_tmp \ {extract_locals.tmp_path}
    /\ IF ~extract_request.dxf_file.readable
       THEN /\ epc' = "done" /\ extract_status' = 500
            /\ extract_locals' = extract_locals
       ELSE /\ epc' = NextPdf(extract_request, 1)
            /\ extract_status' = extract_status
            /\ extract_locals' = [extract_locals EXCEPT
                                     !.all_segments = @ + extract_request.dxf_file.segments]
    /\ UNCHANGED <<assoc_vars, conf_vars, gap_vars, clean_vars, unit_vars, explode_vars,
                   task_vars, filter_vars, match_vars, close_vars, walk_vars, worker_vars,
                   serve_vars, classify_vars, extract_request, vision_calls>>

\* the temporary file of one PDF of the loop
SavePdfUpload ==
    /\ epc = "pdf_save"
    /\ extract_tmp' = extract_tmp \cup {TmpFile(FreshPath, ".pdf")}
    /\ extract_locals' = [extract_locals EXCEPT !.tmp_path = TmpFile(FreshPath, ".pdf"),
                                                !.created = FreshPath]
    /\ epc' = "pdf_parse"
    /\ UNCHANGED <<assoc_vars, conf_vars, gap_vars, clean_vars, unit_vars, explode_vars,
                   task_vars, filter_vars, match_vars, close_vars, walk_vars, worker_vars,
                   serve_vars, classify_vars, extract_request, vision_calls, extract_status>>

\* "try: pdf_result = parse_pdf_file(tmp_path) ... finally:
\* os.unlink(tmp_path)"
ParsePdfUpload ==
    /\ epc = "pdf_parse"
    /\ extract_tmp' = extract_tmp \ {extract_locals.tmp_path}
    /\ IF ~extract_request.pdf_files[extract_locals.pdf_index].readable
       THEN /\ epc' = "done" /\ extract_status' = 500
            /\ extract_locals' = extract_locals
       ELSE /\ epc' = NextPdf(extract_request, extract_locals.pdf_index + 1)
            /\ extract_status' = extract_status
            /\ extract_locals' =
                   [extract_locals EXCEPT
                       !.all_segments = @ + extract_request.pdf_files[extract_locals.pdf_index].segments,
                       !.pdf_index = @ + 1]
    /\ UNCHANGED <<assoc_vars, conf_vars, gap_vars, clean_vars, unit_vars, explode_vars,
                   task_vars, filter_vars, match_vars, close_vars, walk_vars, worker_vars,
                   serve_vars, classify_vars, extract_request, vision_calls>>

\* "if not all_segments: raise HTTPException(status_code=400, ...)", then
\* "if use_vision_ai and (dxf_file or pdf_files)"
CheckGeometry ==
    /\ epc = "check"
    /\ IF extract_locals.all_segments = 0
       THEN epc' = "done" /\ extract_status' = 400
       ELSE /\ epc' = IF /\ extract_request.use_vision_ai
                         /\ \/ extract_request.dxf_file.given
                            \/ extract_request.pdf_files # <<>>
                      THEN "vision" ELSE "respond"
            /\ extract_status' = extract_status
    /\ UNCHANGED <<assoc_vars, conf_vars, gap_vars, clean_vars, unit_vars, explode_vars,
                   task_vars, filter_vars, match_vars, close_vars, walk_vars, worker_vars,
                   serve_vars, classify_vars, extract_request, extract_tmp, extract_locals, vision_calls>>

\* "detect_labels(dxf_path=tmp_path if dxf_file else None, ...)": without a
\* dxf_path detect_labels raises ValueError, with one render_dxf_to_image
\* reads the file with ezdxf.readfile, which raises when there is no such
\* DXF file
DetectLabels ==
    /\ epc = "vision"
    /\ \E dxf_path \in {IF extract_request.dxf_file.given THEN extract_locals.tmp_path ELSE NoPath} :
          /\ vision_calls' = Append(vision_calls,
                                    [dxf_path |-> dxf_path, exists |-> dxf_path \in extract_tmp])
          /\ IF dxf_path.given /\ dxf_path \in extract_tmp /\ dxf_path.suffix = ".dxf"
             THEN epc' = "respond" /\ extract_status' = extract_status
             ELSE epc' = "done" /\ extract_status' = 500
    /\ UNCHANGED <<assoc_vars, conf_vars, gap_vars, clean_vars, unit_vars, explode_vars,
                   task_vars, filter_vars, match_vars, close_vars, walk_vars, worker_vars,
                   serve_vars, classify_vars, extract_request, extract_tmp, extract_locals>>

\* cleanup, regions, matches and "return ExtractResponse(...)"
Respond ==
    /\ epc = "respond"
    /\ epc' = "done"
    /\ extract_status' = 200
    /\ UNCHANGED <<assoc_vars, conf_vars, gap_vars, clean_vars, unit_vars, explode_vars,
                   task_vars, filter_vars, match_vars, close_vars, walk_vars, worker_vars,
                   serve_vars, classify_vars, extract_request, extract_tmp, extract_locals, vision_calls>>

NextExtract ==
    \/ LoadExcel
    \/ SaveDxfUpload
    \/ ParseDxfUpload
    \/ SavePdfUpload
    \/ ParsePdfUpload
    \/ CheckGeometry
    \/ DetectLabels
    \/ Respond

SpecExtract == InitExtract /\ [][NextExtract]_vars

\* C28: when the request has ended no temporary file of it is left, and
\* every path detect_labels was handed as dxf_path names a file that still
\* exists and is a DXF temporary file.
C28_TempFiles ==
    /\ epc = "done" => extract_tmp = {}
    /\ \A i \in DOMAIN vision_calls :
          vision_calls[i].dxf_path.given
              => /\ vision_calls[i].exists
                 /\ vision_calls[i].dxf_path.suffix = ".dxf"

=============================================================================
